---- MODULE Spec2Model ----
(***************************************************************************)
(* A model of the franchisor portal's data layer (src/lib/data-service.ts) *)
(* and of the market page's realtime view-model (app/markets/[id]/page.tsx)*)
(*                                                                         *)
(* The specifications share the variables below:                           *)
(*   SpecPhase       the pure helper DataService.getFurthestPhase          *)
(*   SpecQuery       DataService's reads against the backend tables        *)
(*   SpecUpdates     DataService's writes to market_updates                *)
(*   SpecPage        MarketPage: initial load, realtime subscription       *)
(*   SpecPageLive    SpecPage with loadData's requests answered in the end *)
(*   SpecDetails     getMarketsWithDetails with its sub-fetches in flight  *)
(*   SpecMarkets     MarketsPage and MarketUpdateForm                      *)
(*   SpecMarketList  getMarkets called twice against one table             *)
(*   SpecStats       getDashboardStats against larger property tables      *)
(*   SpecMap         MarketMap: the pins it keeps for its properties prop  *)
(*   SpecProperty    PropertyPage: its initial load                        *)
(*                                                                         *)
(* A JavaScript string is a sequence of one-character strings, so that     *)
(* toLowerCase, indexOf and string comparison are computed, not assumed.   *)
(***************************************************************************)
EXTENDS Integers, Sequences, FiniteSets, TLC

VARIABLES
  phases,            \* SpecPhase: the argument list handed to getFurthestPhase
  ret,               \* the last completed DataService call: [op, ..., val]
  tblMarkets,        \* backend table 'markets'        (sequence of rows)
  tblProperties,     \* backend table 'properties'     (rows in creation order)
  tblMarketUsers,    \* backend table 'market_users' joined to 'users'
  tblMarketUpdates,  \* backend table 'market_updates' (rows in creation order)
  clock,             \* backend: the next generated id / creation timestamp
  \* MarketPage (markets/[id]/page.tsx)
  mounted,           \* the component is mounted
  paramsId,          \* the route parameter id
  load,              \* loadData()'s position: [stage, ...]
  market,            \* useState: market
  properties,        \* useState: properties
  loading,           \* useState: loading
  isUpdating,        \* useState: isUpdating
  selectedPropertyId,\* useState: selectedPropertyId (0 is null)
  effectDeps,        \* [market?.id, selectedPropertyId] of the subscription effect's last run
  channels,          \* live realtime channels, each the closure of its callback
  notifs,            \* change notifications on their way to the client
  handlers,          \* invocations of the channel callback awaiting their re-fetch
  nEvents,           \* backend mutations so far
  nDelivered,        \* notifications handed to a channel callback so far
  nRefetch,          \* getPropertiesByMarket calls issued by channel callbacks so far
  \* DataService.getMarketsWithDetails, step by step
  detailsCall,       \* the invocation in progress: [stage, markets, subs, settled, order]
  \* MarketsPage and its MarketUpdateForm
  marketsPage,       \* useState: [loading, markets, marketUpdates, editingUpdate]
  form,              \* MarketUpdateForm's useState: [message, isSubmitting]
  pending,           \* the view's requests in flight, in the order issued
  \* MarketMap (components/market-map.tsx)
  marketMap,         \* [isLoaded, properties, markers]: useState, the prop, markers.current
  \* PropertyPage (properties/[id] page)
  propertyPage       \* [stage, id, property, market, loading]: loadData's position, useState

dbVars == <<tblMarkets, tblProperties, tblMarketUsers, tblMarketUpdates, clock>>
pageVars == <<mounted, paramsId, load, market, properties, loading, isUpdating,
              selectedPropertyId, effectDeps, channels, notifs, handlers,
              nEvents, nDelivered, nRefetch>>
marketsVars == <<marketsPage, form, pending>>
vars == <<phases, ret, dbVars, pageVars, detailsCall, marketsVars, marketMap,
         propertyPage>>

-----------------------------------------------------------------------------
(* Strings                                                                 *)

Str_intro == <<"i","n","t","r","o">>
Str_site_selection == <<"s","i","t","e","_","s","e","l","e","c","t","i","o","n">>
Str_loi == <<"l","o","i">>
Str_lease == <<"l","e","a","s","e">>
Str_closed == <<"c","l","o","s","e","d">>
Str_LOI == <<"L","O","I">>
Str_Closed == <<"C","l","o","s","e","d">>
Str_Lease == <<"L","e","a","s","e">>
Str_bogus_phase == <<"b","o","g","u","s","_","p","h","a","s","e">>
Str_pending == <<"p","e","n","d","i","n","g">>
Str_empty == <<>>

\* JS null where a string is expected: a one-element sequence whose element is
\* not a character, so it equals no string.
Null == <<"<null>">>

UpperChars == <<"A","B","C","D","E","F","G","H","I","J","K","L","M",
                "N","O","P","Q","R","S","T","U","V","W","X","Y","Z">>
LowerChars == <<"a","b","c","d","e","f","g","h","i","j","k","l","m",
                "n","o","p","q","r","s","t","u","v","w","x","y","z">>

\* String.prototype.toLowerCase on one character (ASCII letters; every other
\* character of the model's alphabet maps to itself).
toLowerCaseChar(c) ==
  IF \E i \in 1..Len(UpperChars) : UpperChars[i] = c
  THEN LowerChars[CHOOSE i \in 1..Len(UpperChars) : UpperChars[i] = c]
  ELSE c

toLowerCase_identity(s) == s

toLowerCase(s) == [i \in 1..Len(s) |-> toLowerCaseChar(s[i])]

\* Array.prototype.indexOf, 0-based, -1 when absent (strict equality).
indexOf(arr, x) ==
  IF \E i \in 1..Len(arr) : arr[i] = x
  THEN (CHOOSE i \in 1..Len(arr) : arr[i] = x /\ \A j \in 1..(i-1) : arr[j] # x) - 1
  ELSE -1

-----------------------------------------------------------------------------
(* DataService.getFurthestPhase                                            *)

phaseOrder == <<Str_intro, Str_site_selection, Str_loi, Str_lease, Str_closed>>

\* The loop state is [idx |-> furthestPhaseIndex, ph |-> furthestPhase];
\* one iteration of `for (const phase of phases)`.
FurthestStep_ge(st, phase) ==
  LET phaseIndex == indexOf(phaseOrder, toLowerCase(phase))
  IN IF phaseIndex >= st.idx THEN [idx |-> phaseIndex, ph |-> phase] ELSE st

FurthestStep(st, phase) ==
  LET phaseIndex == indexOf(phaseOrder, toLowerCase(phase))
  IN IF phaseIndex > st.idx THEN [idx |-> phaseIndex, ph |-> phase] ELSE st

RECURSIVE FurthestLoop(_, _, _)
FurthestLoop(st, ps, i) ==
  IF i > Len(ps) THEN st ELSE FurthestLoop(FurthestStep(st, ps[i]), ps, i + 1)

getFurthestPhase(ps) ==
  IF Len(ps) = 0 THEN Null
  ELSE FurthestLoop([idx |-> -1, ph |-> Null], ps, 1).ph

-----------------------------------------------------------------------------
(* Backend: tables, rows, and the query builder's semantics                *)

\* const CLIENT_ID (data-service.ts:4); OTHER_CLIENT is any other tenant of
\* the same backend.
CLIENT_ID == "39022dd3-45f4-4e82-b9bd-5c9733404728"
OTHER_CLIENT == "other-client"

MaxProps == 3        \* rows the 'properties' table may hold
NullRow == [null |-> TRUE]     \* JS null where a row object is expected

Alphabet == UpperChars \o LowerChars \o <<"_">>
CharCode(c) == CHOOSE i \in 1..Len(Alphabet) : Alphabet[i] = c

\* text comparison a <= b (lexicographic by character)
RECURSIVE StrLeq(_, _)
StrLeq(a, b) ==
  IF Len(a) = 0 THEN TRUE
  ELSE IF Len(b) = 0 THEN FALSE
  ELSE IF CharCode(Head(a)) < CharCode(Head(b)) THEN TRUE
  ELSE IF CharCode(Head(a)) > CharCode(Head(b)) THEN FALSE
  ELSE StrLeq(Tail(a), Tail(b))

Perms(n) == {p \in [1..n -> 1..n] : \A i, j \in 1..n : i # j => p[i] # p[j]}

\* every arrangement of the rows
Arrangements(rows) == {[i \in 1..Len(rows) |-> rows[p[i]]] : p \in Perms(Len(rows))}

MarketIds == {"m1", "m2", "m3"}
MarketRow(id, client, name) == [id |-> id, client_id |-> client, name |-> name]

\* markets!inner(client_id): the parent rows of a property (0 or 1)
ParentMarkets(p) == SelectSeq(tblMarkets, LAMBDA m : m.id = p.market_id)

\* select('*, markets!inner(client_id)'): the property with its parent embedded
WithMarketEmbed(p) ==
  [id |-> p.id, market_id |-> p.market_id, phase |-> p.phase,
   created_at |-> p.created_at,
   markets |-> [client_id |-> ParentMarkets(p)[1].client_id]]

EmbedMarkets(rows) == [i \in 1..Len(rows) |-> WithMarketEmbed(rows[i])]

\* .order(col): every arrangement of the rows that is sorted by the column;
\* rows that tie may come back in any order.
\* .order('created_at', { ascending: false })
OrderByCreatedDesc(rows) ==
  {r \in Arrangements(rows) :
     \A i \in 1..(Len(r) - 1) : r[i].created_at >= r[i + 1].created_at}

\* .order('name')
OrderByName(rows) ==
  {r \in Arrangements(rows) : \A i \in 1..(Len(r) - 1) : StrLeq(r[i].name, r[i + 1].name)}

-----------------------------------------------------------------------------
(* DataService: single-query reads.  Each operator gives the SET of values *)
(* the call can return for the current tables; err says whether the        *)
(* backend answered this request with an error.                            *)

getMarkets_unordered(err) ==
  IF err THEN {<<>>}
  ELSE {SelectSeq(tblMarkets, LAMBDA m : m.client_id = CLIENT_ID)}

\* .eq('client_id', CLIENT_ID).order('name')
getMarkets(err) ==
  IF err THEN {<<>>}
  ELSE OrderByName(SelectSeq(tblMarkets, LAMBDA m : m.client_id = CLIENT_ID))

\* .single(): an error unless exactly one row matches
getMarket(id, err) ==
  LET rows == SelectSeq(tblMarkets, LAMBDA m : m.id = id)
  IN IF err \/ Len(rows) # 1 THEN {NullRow} ELSE {rows[1]}

getProperties(err) ==
  IF err THEN {<<>>}
  ELSE OrderByCreatedDesc(EmbedMarkets(SelectSeq(tblProperties,
                 LAMBDA p : /\ Len(ParentMarkets(p)) > 0
                            /\ ParentMarkets(p)[1].client_id = CLIENT_ID)))

getPropertiesByMarket_noClient(marketId, err) ==
  IF err THEN {<<>>}
  ELSE OrderByCreatedDesc(EmbedMarkets(SelectSeq(tblProperties,
                 LAMBDA p : /\ p.market_id = marketId
                            /\ Len(ParentMarkets(p)) > 0)))

getPropertiesByMarket(marketId, err) ==
  IF err THEN {<<>>}
  ELSE OrderByCreatedDesc(EmbedMarkets(SelectSeq(tblProperties,
                 LAMBDA p : /\ p.market_id = marketId
                            /\ Len(ParentMarkets(p)) > 0
                            /\ ParentMarkets(p)[1].client_id = CLIENT_ID)))

getProperty(id, err) ==
  LET rows == SelectSeq(tblProperties, LAMBDA p : p.id = id)
  IN IF err \/ Len(rows) # 1 THEN {NullRow} ELSE {rows[1]}

getMarketFranchisees_ignoreError(marketId, err) ==
  LET rows == SelectSeq(tblMarketUsers,
                   LAMBDA mu : /\ mu.market_id = marketId
                               /\ mu.role = "franchisee"
                               /\ mu.users.role = "franchisee")
  IN {[i \in 1..Len(rows) |-> rows[i].users]}

\* rows of market_users are [market_id, role, users |-> [id, role]]
getMarketFranchisees(marketId, err) ==
  IF err THEN {<<>>}
  ELSE LET rows == SelectSeq(tblMarketUsers,
                   LAMBDA mu : /\ mu.market_id = marketId
                               /\ mu.role = "franchisee"
                               /\ mu.users.role = "franchisee")
       IN {[i \in 1..Len(rows) |-> rows[i].users]}

\* the omitted argument of getMarketUpdates(marketId?: string)
Undefined == "<undefined>"

\* `if (marketId)` (line 217): undefined and the empty string are falsy
TruthyId(marketId) == marketId # Undefined /\ marketId # ""

getMarketUpdates_nullOnError(marketId, err) ==
  IF err THEN {NullRow}
  ELSE OrderByCreatedDesc(IF TruthyId(marketId)
                      THEN SelectSeq(tblMarketUpdates, LAMBDA u : u.market_id = marketId)
                      ELSE tblMarketUpdates)

getMarketUpdates_unfiltered(marketId, err) ==
  IF err THEN {<<>>} ELSE OrderByCreatedDesc(tblMarketUpdates)

\* .order('created_at', desc), and .eq('market_id', marketId) if (marketId)
getMarketUpdates(marketId, err) ==
  IF err THEN {<<>>}
  ELSE OrderByCreatedDesc(IF TruthyId(marketId)
                      THEN SelectSeq(tblMarketUpdates, LAMBDA u : u.market_id = marketId)
                      ELSE tblMarketUpdates)

-----------------------------------------------------------------------------
(* DataService: aggregates                                                 *)

\* [...new Set(xs)]: first occurrences, in order
RECURSIVE Uniq(_)
Uniq(xs) ==
  IF Len(xs) = 0 THEN <<>>
  ELSE LET init == Uniq(SubSeq(xs, 1, Len(xs) - 1))
           last == xs[Len(xs)]
       IN IF \E i \in 1..Len(init) : init[i] = last THEN init ELSE Append(init, last)

\* Boolean(x) for a string-or-null x
Truthy(x) == x # Null /\ x # Str_empty

\* properties.map(p => p.phase)
PhaseColumn(props) == [i \in 1..Len(props) |-> props[i].phase]

\* lines 192-196: the phases list derived from one market's fetched properties
PhasesOf_always(props) ==
  <<getFurthestPhase(Uniq(SelectSeq(PhaseColumn(props), Truthy)))>>

PhasesOf_all(props) ==
  Uniq(SelectSeq(PhaseColumn(props), Truthy))

PhasesOf(props) ==
  LET allPhases == Uniq(SelectSeq(PhaseColumn(props), Truthy))
      furthestPhase == getFurthestPhase(allPhases)
  IN IF Truthy(furthestPhase) THEN <<furthestPhase>> ELSE <<>>

\* lines 198-203: { ...market, propertyCount, phases, franchisees }
DetailsEntry(mkt, props, franchisees) ==
  [id |-> mkt.id, client_id |-> mkt.client_id, name |-> mkt.name,
   propertyCount |-> Len(props),
   phases |-> PhasesOf(props),
   franchisees |-> franchisees]

\* lines 185-204: the entries one market's callback can produce
MarketDetails(mkt, errP, errF) ==
  {DetailsEntry(mkt, ps, fs) :
     ps \in getPropertiesByMarket(mkt.id, mkt.id \in errP),
     fs \in getMarketFranchisees(mkt.id, mkt.id \in errF)}

\* Promise.all(markets.map(...)): one entry per market, in the markets' order
AllDetails(ms, errP, errF) ==
  {r \in [1..Len(ms) -> UNION {MarketDetails(ms[i], errP, errF) : i \in 1..Len(ms)}] :
     \A i \in 1..Len(ms) : r[i] \in MarketDetails(ms[i], errP, errF)}

\* errM: the market list query errs; errP, errF: the markets whose properties
\* and franchisees sub-fetches err
getMarketsWithDetails(errM, errP, errF) ==
  UNION {AllDetails(ms, errP, errF) : ms \in getMarkets(errM)}

Slice0_whole(xs, n) == xs

\* Array.prototype.slice(0, n)
Slice0(xs, n) == SubSeq(xs, 1, IF Len(xs) < n THEN Len(xs) ELSE n)

RecentCount == 5

MarketCount(mkt, errP) ==
  {[marketId |-> mkt.id, propertyCount |-> Len(ps)] :
     ps \in getPropertiesByMarket(mkt.id, mkt.id \in errP)}

\* Promise.all(markets.map(...)): one count per market, in the markets' order
AllCounts(ms, errP) ==
  {r \in [1..Len(ms) -> UNION {MarketCount(ms[i], errP) : i \in 1..Len(ms)}] :
     \A i \in 1..Len(ms) : r[i] \in MarketCount(ms[i], errP)}

getDashboardStats(errM, errA, errP) ==
  UNION {{[totalMarkets |-> Len(ms),
           totalProperties |-> Len(ps),
           recentProperties |-> Slice0(ps, RecentCount),
           marketPropertyCounts |-> cs] :
            ps \in getProperties(errA),
            cs \in AllCounts(ms, errP)} :
         ms \in getMarkets(errM)}

-----------------------------------------------------------------------------
(* DataService: writes to 'market_updates'.  Each operator gives the set   *)
(* of outcomes [tbl |-> the table afterwards, val |-> the value returned]. *)

UpdateRow(id, marketId, author, message, at) ==
  [id |-> id, market_id |-> marketId, author |-> author, message |-> message,
   created_at |-> at]

createMarketUpdate_unstored(marketId, author, message, err) ==
  IF err THEN {[tbl |-> tblMarketUpdates, val |-> NullRow]}
  ELSE {[tbl |-> tblMarketUpdates,
         val |-> UpdateRow(clock, marketId, author, message, clock)]}

\* .insert({market_id, author, message}).select().single(): the backend
\* generates id and created_at
createMarketUpdate(marketId, author, message, err) ==
  IF err THEN {[tbl |-> tblMarketUpdates, val |-> NullRow]}
  ELSE LET row == UpdateRow(clock, marketId, author, message, clock)
       IN {[tbl |-> Append(tblMarketUpdates, row), val |-> row]}

updateMarketUpdate_everyRow(id, message, err) ==
  LET hit == SelectSeq(tblMarketUpdates, LAMBDA u : u.id = id)
      after == [i \in 1..Len(tblMarketUpdates) |->
                 [tblMarketUpdates[i] EXCEPT !.message = message]]
  IN IF err \/ Len(hit) # 1 THEN {[tbl |-> tblMarketUpdates, val |-> NullRow]}
     ELSE {[tbl |-> after,
            val |-> UpdateRow(id, hit[1].market_id, hit[1].author, message, hit[1].created_at)]}

\* .update({message}).eq('id', id).select().single()
updateMarketUpdate(id, message, err) ==
  LET hit == SelectSeq(tblMarketUpdates, LAMBDA u : u.id = id)
      after == [i \in 1..Len(tblMarketUpdates) |->
                 IF tblMarketUpdates[i].id = id
                 THEN [tblMarketUpdates[i] EXCEPT !.message = message]
                 ELSE tblMarketUpdates[i]]
  IN IF err \/ Len(hit) # 1 THEN {[tbl |-> tblMarketUpdates, val |-> NullRow]}
     ELSE {[tbl |-> after,
            val |-> UpdateRow(id, hit[1].market_id, hit[1].author, message, hit[1].created_at)]}

deleteMarketUpdate_everyRow(id, err) ==
  IF err THEN {[tbl |-> tblMarketUpdates, val |-> FALSE]}
  ELSE {[tbl |-> <<>>, val |-> TRUE]}

deleteMarketUpdate_alwaysTrue(id, err) ==
  IF err THEN {[tbl |-> tblMarketUpdates, val |-> TRUE]}
  ELSE {[tbl |-> SelectSeq(tblMarketUpdates, LAMBDA u : u.id # id), val |-> TRUE]}

\* .delete().eq('id', id): deleting no row is not an error
deleteMarketUpdate(id, err) ==
  IF err THEN {[tbl |-> tblMarketUpdates, val |-> FALSE]}
  ELSE {[tbl |-> SelectSeq(tblMarketUpdates, LAMBDA u : u.id # id), val |-> TRUE]}

-----------------------------------------------------------------------------
(* page.tsx's own single-market fetch (markets/[id]/page.tsx:45-57)        *)

pageGetMarket(id, err) ==
  LET rows == SelectSeq(tblMarkets, LAMBDA m : m.id = id)
  IN IF err \/ Len(rows) # 1 THEN {NullRow} ELSE {rows[1]}

-----------------------------------------------------------------------------
(* Initial backend contents                                                *)

Str_a == <<"a">>
Str_b == <<"b">>
Str_c == <<"c">>

\* Two markets of this portal's client (stored out of name order) and one
\* market of another client.
SeedMarkets ==
  <<MarketRow("m1", CLIENT_ID, Str_b),
    MarketRow("m2", CLIENT_ID, Str_a),
    MarketRow("m3", OTHER_CLIENT, Str_c)>>

ClientMarketIds == {"m1", "m2"}
AnyMarketId == MarketIds \cup {"m9"}     \* m9 names no market

MembershipRow(marketId, role, userId, userRole) ==
  [market_id |-> marketId, role |-> role, users |-> [id |-> userId, role |-> userRole]]

SeedMarketUsers ==
  <<MembershipRow("m1", "franchisee", "u1", "franchisee"),
    MembershipRow("m1", "franchisee", "u2", "admin"),
    MembershipRow("m2", "manager", "u3", "franchisee"),
    MembershipRow("m3", "franchisee", "u4", "franchisee")>>

Str_hello == <<"h","e","l","l","o">>
Str_bye == <<"b","y","e">>
Str_A == <<"A">>

SeedMarketUpdates ==
  <<UpdateRow(1, "m1", Str_A, Str_hello, 1),
    UpdateRow(2, "m3", Str_A, Str_bye, 2)>>

PropertyRow(id, marketId, phase, at) ==
  [id |-> id, market_id |-> marketId, phase |-> phase, created_at |-> at]

None == [op |-> "none"]

-----------------------------------------------------------------------------
(* SpecPhase: getFurthestPhase applied to every short list of phases       *)

MaxPhases == 3
PhaseUniverse ==
  {Str_intro, Str_site_selection, Str_loi, Str_lease, Str_closed,
   Str_LOI, Str_Closed, Str_bogus_phase, Str_pending}
PhaseLists == UNION {[1..n -> PhaseUniverse] : n \in 0..MaxPhases}

\* no getMarketsWithDetails invocation is in progress
NoCall == [stage |-> "idle"]

\* MarketsPage as constructed (useState initial values, lines 867-873; the
\* form's, market-update-form.tsx:29-30), with no request issued
MarketsIdle ==
  /\ marketsPage = [loading |-> TRUE, markets |-> <<>>, marketUpdates |-> <<>>,
                    editingUpdate |-> NullRow]
  /\ form = [message |-> Str_empty, isSubmitting |-> FALSE]
  /\ pending = <<>>

\* no PropertyPage is open
PropertyIdle ==
  propertyPage = [stage |-> "done", id |-> 0, property |-> NullRow, market |-> NullRow,
                  loading |-> TRUE]

\* no MarketMap is rendered
MapIdle == marketMap = [isLoaded |-> FALSE, properties |-> <<>>, markers |-> <<>>]

\* no page is open
PageIdle ==
  /\ mounted = FALSE
  /\ paramsId = ""
  /\ load = [stage |-> "done"]
  /\ market = NullRow
  /\ properties = <<>>
  /\ loading = TRUE
  /\ isUpdating = FALSE
  /\ selectedPropertyId = 0
  /\ effectDeps = [marketId |-> "", sel |-> 0]
  /\ channels = {}
  /\ notifs = <<>>
  /\ handlers = {}
  /\ nEvents = 0
  /\ nDelivered = 0
  /\ nRefetch = 0

DbIdle ==
  /\ tblMarkets = SeedMarkets
  /\ tblProperties = <<>>
  /\ tblMarketUsers = SeedMarketUsers
  /\ tblMarketUpdates = <<>>
  /\ clock = 1

InitPhase ==
  /\ phases \in PhaseLists
  /\ detailsCall = NoCall
  /\ MapIdle
  /\ PropertyIdle
  /\ MarketsIdle
  /\ ret = None
  /\ DbIdle
  /\ PageIdle

CallGetFurthestPhase ==
  /\ ret = None
  /\ ret' = [op |-> "getFurthestPhase", val |-> getFurthestPhase(phases)]
  /\ UNCHANGED <<phases, marketMap, propertyPage, detailsCall, marketsVars, dbVars, pageVars>>

NextPhase == CallGetFurthestPhase

SpecPhase == InitPhase /\ [][NextPhase]_vars

-----------------------------------------------------------------------------
(* SpecQuery: the read operations against a backend whose 'properties'     *)
(* table grows by arbitrary inserts                                        *)

DbPhases == {Str_intro, Str_LOI, Str_loi, Str_bogus_phase, Str_empty}
\* what an insert may create: any phase in this client's market m1, or a
\* property of the other client's market m3
InsertChoices == ({"m1"} \X DbPhases) \cup {<<"m3", Str_intro>>}

InitQuery ==
  /\ phases = <<>>
  /\ detailsCall = NoCall
  /\ MapIdle
  /\ PropertyIdle
  /\ MarketsIdle
  /\ ret = None
  /\ tblMarkets = SeedMarkets
  /\ tblProperties = <<>>
  /\ tblMarketUsers = SeedMarketUsers
  /\ tblMarketUpdates = SeedMarketUpdates
  /\ clock = 1
  /\ PageIdle

\* the backend's other writers: a property is created in some market
BackendInsertProperty ==
  /\ ret = None
  /\ Len(tblProperties) < MaxProps
  /\ \E c \in InsertChoices :
       tblProperties' = Append(tblProperties, PropertyRow(clock, c[1], c[2], clock))
  /\ clock' = clock + 1
  /\ UNCHANGED <<phases, marketMap, propertyPage, detailsCall, marketsVars, ret, tblMarkets, tblMarketUsers, tblMarketUpdates, pageVars>>

CallGetMarkets ==
  /\ ret = None
  /\ \E err \in BOOLEAN : \E v \in getMarkets(err) :
       ret' = [op |-> "getMarkets", err |-> err, val |-> v]
  /\ UNCHANGED <<phases, marketMap, propertyPage, detailsCall, marketsVars, dbVars, pageVars>>

CallGetMarket ==
  /\ ret = None
  /\ \E id \in AnyMarketId, err \in BOOLEAN : \E v \in getMarket(id, err) :
       ret' = [op |-> "getMarket", id |-> id, err |-> err, val |-> v]
  /\ UNCHANGED <<phases, marketMap, propertyPage, detailsCall, marketsVars, dbVars, pageVars>>

CallPageGetMarket ==
  /\ ret = None
  /\ \E id \in AnyMarketId, err \in BOOLEAN : \E v \in pageGetMarket(id, err) :
       ret' = [op |-> "page.getMarket", id |-> id, err |-> err, val |-> v]
  /\ UNCHANGED <<phases, marketMap, propertyPage, detailsCall, marketsVars, dbVars, pageVars>>

CallGetProperties ==
  /\ ret = None
  /\ \E err \in BOOLEAN : \E v \in getProperties(err) :
       ret' = [op |-> "getProperties", err |-> err, val |-> v]
  /\ UNCHANGED <<phases, marketMap, propertyPage, detailsCall, marketsVars, dbVars, pageVars>>

CallGetPropertiesByMarket ==
  /\ ret = None
  /\ \E id \in AnyMarketId, err \in BOOLEAN : \E v \in getPropertiesByMarket(id, err) :
       ret' = [op |-> "getPropertiesByMarket", marketId |-> id, err |-> err, val |-> v]
  /\ UNCHANGED <<phases, marketMap, propertyPage, detailsCall, marketsVars, dbVars, pageVars>>

CallGetProperty ==
  /\ ret = None
  /\ \E id \in 1..MaxProps, err \in BOOLEAN : \E v \in getProperty(id, err) :
       ret' = [op |-> "getProperty", id |-> id, err |-> err, val |-> v]
  /\ UNCHANGED <<phases, marketMap, propertyPage, detailsCall, marketsVars, dbVars, pageVars>>

CallGetMarketFranchisees ==
  /\ ret = None
  /\ \E id \in AnyMarketId, err \in BOOLEAN : \E v \in getMarketFranchisees(id, err) :
       ret' = [op |-> "getMarketFranchisees", marketId |-> id, err |-> err, val |-> v]
  /\ UNCHANGED <<phases, marketMap, propertyPage, detailsCall, marketsVars, dbVars, pageVars>>

CallGetMarketUpdates ==
  /\ ret = None
  /\ \E id \in AnyMarketId \cup {"", Undefined}, err \in BOOLEAN :
       \E v \in getMarketUpdates(id, err) :
       ret' = [op |-> "getMarketUpdates", marketId |-> id, err |-> err, val |-> v]
  /\ UNCHANGED <<phases, marketMap, propertyPage, detailsCall, marketsVars, dbVars, pageVars>>

CallGetDashboardStats ==
  /\ ret = None
  /\ \E errM \in BOOLEAN, errA \in BOOLEAN, errP \in SUBSET ClientMarketIds :
       \E v \in getDashboardStats(errM, errA, errP) :
         ret' = [op |-> "getDashboardStats", errM |-> errM, errA |-> errA,
                 errP |-> errP, val |-> v]
  /\ UNCHANGED <<phases, marketMap, propertyPage, detailsCall, marketsVars, dbVars, pageVars>>

CallGetMarketsWithDetails ==
  /\ ret = None
  /\ \E errM \in BOOLEAN, errP \in SUBSET ClientMarketIds, errF \in SUBSET ClientMarketIds :
       \E v \in getMarketsWithDetails(errM, errP, errF) :
         ret' = [op |-> "getMarketsWithDetails", errM |-> errM, errP |-> errP,
                 errF |-> errF, val |-> v]
  /\ UNCHANGED <<phases, marketMap, propertyPage, detailsCall, marketsVars, dbVars, pageVars>>

\* the caller takes the value; the next call may start
Return ==
  /\ ret # None
  /\ ret' = None
  /\ UNCHANGED <<phases, marketMap, propertyPage, detailsCall, marketsVars, dbVars, pageVars>>

NextQuery ==
  \/ BackendInsertProperty
  \/ CallGetMarkets
  \/ CallGetMarket
  \/ CallPageGetMarket
  \/ CallGetProperties
  \/ CallGetPropertiesByMarket
  \/ CallGetProperty
  \/ CallGetMarketFranchisees
  \/ CallGetMarketUpdates
  \/ CallGetDashboardStats
  \/ CallGetMarketsWithDetails
  \/ Return

SpecQuery == InitQuery /\ [][NextQuery]_vars

-----------------------------------------------------------------------------
(* SpecUpdates: the market-update operations against 'market_updates'      *)

MaxUpdates == 3      \* rows ever created in 'market_updates'
Messages == {Str_hello, Str_bye}

InitUpdates ==
  /\ phases = <<>>
  /\ detailsCall = NoCall
  /\ MapIdle
  /\ PropertyIdle
  /\ MarketsIdle
  /\ ret = None
  /\ tblMarkets = SeedMarkets
  /\ tblProperties = <<>>
  /\ tblMarketUsers = SeedMarketUsers
  /\ tblMarketUpdates = <<>>
  /\ clock = 1
  /\ PageIdle

CallCreateMarketUpdate ==
  /\ ret = None
  /\ clock <= MaxUpdates
  /\ \E m \in ClientMarketIds, msg \in Messages, err \in BOOLEAN :
       \E o \in createMarketUpdate(m, Str_A, msg, err) :
         /\ tblMarketUpdates' = o.tbl
         /\ clock' = IF err THEN clock ELSE clock + 1
         /\ ret' = [op |-> "createMarketUpdate", marketId |-> m, author |-> Str_A,
                    message |-> msg, err |-> err, val |-> o.val]
  /\ UNCHANGED <<phases, marketMap, propertyPage, detailsCall, marketsVars, tblMarkets, tblProperties, tblMarketUsers, pageVars>>

CallUpdateMarketUpdate ==
  /\ ret = None
  /\ \E id \in 1..MaxUpdates, msg \in Messages, err \in BOOLEAN :
       \E o \in updateMarketUpdate(id, msg, err) :
         /\ tblMarketUpdates' = o.tbl
         /\ ret' = [op |-> "updateMarketUpdate", id |-> id, message |-> msg,
                    err |-> err, val |-> o.val]
  /\ UNCHANGED <<phases, marketMap, propertyPage, detailsCall, marketsVars, tblMarkets, tblProperties, tblMarketUsers, clock, pageVars>>

CallDeleteMarketUpdate ==
  /\ ret = None
  /\ \E id \in 1..MaxUpdates, err \in BOOLEAN :
       \E o \in deleteMarketUpdate(id, err) :
         /\ tblMarketUpdates' = o.tbl
         /\ ret' = [op |-> "deleteMarketUpdate", id |-> id, err |-> err, val |-> o.val]
  /\ UNCHANGED <<phases, marketMap, propertyPage, detailsCall, marketsVars, tblMarkets, tblProperties, tblMarketUsers, clock, pageVars>>

NextUpdates ==
  \/ CallCreateMarketUpdate
  \/ CallUpdateMarketUpdate
  \/ CallDeleteMarketUpdate
  \/ CallGetMarketUpdates
  \/ Return

SpecUpdates == InitUpdates /\ [][NextUpdates]_vars

-----------------------------------------------------------------------------
(* SpecPage: MarketPage (markets/[id]/page.tsx:77-264) against a backend   *)
(* whose 'properties' table is written by others.                          *)
(*                                                                         *)
(* A request to the backend is answered in two steps: the backend evaluates*)
(* the query on the tables as they are then (Serve...), and later the      *)
(* awaiting code resumes with that answer (...Resolved / Resolve...).      *)
(* selectedPropertyId null is 0; property ids are 1, 2, ...                *)

MaxEvents == 2       \* backend mutations of 'properties' while the page is open

\* the dependency array [market?.id, selectedPropertyId] (line 173); "" is undefined
Deps == [marketId |-> IF market = NullRow THEN "" ELSE market.id,
         sel |-> selectedPropertyId]

FinallyLoading_skip(l) == l

\* lines 125-127: finally { setLoading(false) }
FinallyLoading(l) == FALSE

\* loadData, lines 111-116 and 122-127: the market fetch has answered
LoadMarketResolved ==
  /\ load.stage = "market"
  /\ \E err \in BOOLEAN : \E marketData \in pageGetMarket(paramsId, err) :
       IF marketData = NullRow
       THEN \* notFound() throws, the catch block throws again, finally runs
            /\ loading' = FinallyLoading(loading)
            /\ load' = [stage |-> "done"]
       ELSE \* getMarketProperties(marketData.id) is issued
            /\ load' = [stage |-> "props", marketData |-> marketData]
            /\ UNCHANGED loading
  /\ UNCHANGED <<phases, marketMap, propertyPage, detailsCall, marketsVars, ret, dbVars, mounted, paramsId, market, properties, isUpdating,
                 selectedPropertyId, effectDeps, channels, notifs, handlers,
                 nEvents, nDelivered, nRefetch>>

\* the backend answers loadData's getPropertiesByMarket, or the request
\* fails with an exception (the client library throws instead of answering)
ServeLoadProperties ==
  /\ load.stage = "props"
  /\ \/ \E err \in BOOLEAN : \E data \in getPropertiesByMarket(load.marketData.id, err) :
          load' = [stage |-> "propsServed", marketData |-> load.marketData, data |-> data]
     \/ load' = [stage |-> "propsThrew", marketData |-> load.marketData, data |-> <<>>]
  /\ UNCHANGED <<phases, marketMap, propertyPage, detailsCall, marketsVars, ret, dbVars, mounted, paramsId, market, properties, loading,
                 isUpdating, selectedPropertyId, effectDeps, channels, notifs, handlers,
                 nEvents, nDelivered, nRefetch>>

\* loadData, lines 118-127: with the list, setMarket and setProperties; after
\* an exception the catch block (it calls notFound(), which throws); in both
\* cases finally runs
LoadPropertiesResolved ==
  /\ load.stage \in {"propsServed", "propsThrew"}
  /\ market' = IF load.stage = "propsServed" THEN load.marketData ELSE market
  /\ properties' = IF load.stage = "propsServed" THEN load.data ELSE properties
  /\ loading' = FinallyLoading(loading)
  /\ load' = [stage |-> "done"]
  /\ UNCHANGED <<phases, marketMap, propertyPage, detailsCall, marketsVars, ret, dbVars, mounted, paramsId, isUpdating, selectedPropertyId,
                 effectDeps, channels, notifs, handlers, nEvents, nDelivered, nRefetch>>

\* lines 170-172: the cleanup returned by the effect's previous run removes the
\* channel that run opened (the run with no market opened none)
EffectCleanup_none(chs) == chs

EffectCleanup(chs) == chs \ {effectDeps}

\* lines 135-168: no channel without a market id, else one channel whose
\* callback closes over market.id and selectedPropertyId
EffectSubscribe(chs) == IF Deps.marketId = "" THEN chs ELSE chs \cup {Deps}

\* React re-runs the effect after a render in which a dependency changed:
\* first the previous run's cleanup, then the effect body
RunSubscriptionEffect ==
  /\ mounted
  /\ Deps # effectDeps
  /\ channels' = EffectSubscribe(EffectCleanup(channels))
  /\ effectDeps' = Deps
  /\ UNCHANGED <<phases, marketMap, propertyPage, detailsCall, marketsVars, ret, dbVars, mounted, paramsId, load, market, properties, loading,
                 isUpdating, selectedPropertyId, notifs, handlers,
                 nEvents, nDelivered, nRefetch>>

\* unmounting runs the cleanup of the effect's last run
Unmount ==
  /\ mounted
  /\ mounted' = FALSE
  /\ channels' = EffectCleanup(channels)
  /\ UNCHANGED <<phases, marketMap, propertyPage, detailsCall, marketsVars, ret, dbVars, paramsId, load, market, properties, loading,
                 isUpdating, selectedPropertyId, effectDeps, notifs, handlers,
                 nEvents, nDelivered, nRefetch>>

\* lines 256-264: a pin of a listed property is clicked, or the empty map ('')
handlePropertySelect ==
  /\ mounted /\ ~loading /\ market # NullRow
  /\ \E id \in {0} \cup {properties[i].id : i \in 1..Len(properties)} :
       selectedPropertyId' = id
  /\ UNCHANGED <<phases, marketMap, propertyPage, detailsCall, marketsVars, ret, dbVars, mounted, paramsId, load, market, properties, loading,
                 isUpdating, effectDeps, channels, notifs, handlers,
                 nEvents, nDelivered, nRefetch>>

\* postgres_changes with filter market_id=eq.<id> (lines 140-146): a change
\* of a row is announced if some channel is subscribed to the row's market
Announce(marketId, eventType, oldId) ==
  IF \E c \in channels : c.marketId = marketId
  THEN Append(notifs, [marketId |-> marketId, eventType |-> eventType, oldId |-> oldId])
  ELSE notifs

BackendInsert ==
  /\ nEvents < MaxEvents
  /\ \E m \in {"m1", "m3"} :
       /\ tblProperties' = Append(tblProperties, PropertyRow(clock, m, Str_intro, clock))
       /\ notifs' = Announce(m, "INSERT", 0)
  /\ clock' = clock + 1
  /\ nEvents' = nEvents + 1
  /\ UNCHANGED <<phases, marketMap, propertyPage, detailsCall, marketsVars, ret, tblMarkets, tblMarketUsers, tblMarketUpdates, mounted,
                 paramsId, load, market, properties, loading, isUpdating,
                 selectedPropertyId, effectDeps, channels, handlers, nDelivered, nRefetch>>

BackendUpdate ==
  /\ nEvents < MaxEvents
  /\ \E i \in 1..Len(tblProperties) :
       /\ tblProperties[i].phase = Str_intro
       /\ tblProperties' = [tblProperties EXCEPT ![i].phase = Str_loi]
       /\ notifs' = Announce(tblProperties[i].market_id, "UPDATE", 0)
  /\ nEvents' = nEvents + 1
  /\ UNCHANGED <<phases, marketMap, propertyPage, detailsCall, marketsVars, ret, tblMarkets, tblMarketUsers, tblMarketUpdates, clock, mounted,
                 paramsId, load, market, properties, loading, isUpdating,
                 selectedPropertyId, effectDeps, channels, handlers, nDelivered, nRefetch>>

BackendDelete ==
  /\ nEvents < MaxEvents
  /\ \E i \in 1..Len(tblProperties) :
       /\ tblProperties' = SelectSeq(tblProperties, LAMBDA p : p.id # tblProperties[i].id)
       /\ notifs' = Announce(tblProperties[i].market_id, "DELETE", tblProperties[i].id)
  /\ nEvents' = nEvents + 1
  /\ UNCHANGED <<phases, marketMap, propertyPage, detailsCall, marketsVars, ret, tblMarkets, tblMarketUsers, tblMarketUpdates, clock, mounted,
                 paramsId, load, market, properties, loading, isUpdating,
                 selectedPropertyId, effectDeps, channels, handlers, nDelivered, nRefetch>>

\* lines 150-154: the callback always awaits getMarketProperties(market.id),
\* whatever isUpdating is
StartsRefetch_coalesce(updating) == ~updating

StartsRefetch(updating) == TRUE

\* lines 147-154: the callback of channel c runs up to its await
HandlerOf(c, note, n) ==
  [n |-> n, marketId |-> c.marketId, sel |-> c.sel, eventType |-> note.eventType,
   oldId |-> note.oldId, stage |-> "sent", data |-> <<>>]

\* the oldest notification reaches the client; every live channel on its
\* market runs its callback; with no such channel it is dropped
DeliverNotification ==
  /\ notifs # <<>>
  /\ LET note == Head(notifs)
         targets == {c \in channels : c.marketId = note.marketId}
         fetching == IF StartsRefetch(isUpdating) THEN targets ELSE {}
     IN /\ notifs' = Tail(notifs)
        /\ handlers' = handlers \cup {HandlerOf(c, note, nDelivered + 1) : c \in fetching}
        /\ isUpdating' = IF fetching # {} THEN TRUE ELSE isUpdating
        /\ nDelivered' = nDelivered + Cardinality(targets)
        /\ nRefetch' = nRefetch + Cardinality(fetching)
  /\ UNCHANGED <<phases, marketMap, propertyPage, detailsCall, marketsVars, ret, dbVars, mounted, paramsId, load, market, properties, loading,
                 selectedPropertyId, effectDeps, channels, nEvents>>

\* the backend answers a callback's getPropertiesByMarket
ServeRefetch ==
  \E h \in handlers :
    /\ h.stage = "sent"
    /\ \E err \in BOOLEAN : \E data \in getPropertiesByMarket(h.marketId, err) :
         handlers' = (handlers \ {h}) \cup {[h EXCEPT !.stage = "served", !.data = data]}
    /\ UNCHANGED <<phases, marketMap, propertyPage, detailsCall, marketsVars, ret, dbVars, mounted, paramsId, load, market, properties, loading,
                   isUpdating, selectedPropertyId, effectDeps, channels, notifs,
                   nEvents, nDelivered, nRefetch>>

\* line 155: setProperties(updatedProperties)
RefreshedProperties_keep(h) == properties

RefreshedProperties(h) == h.data

\* lines 158-160: the callback's own selectedPropertyId against the deleted row
ClearsSelection(h) == h.eventType = "DELETE" /\ h.sel = h.oldId

\* lines 155-165: the callback resumes with the fetched list
ResolveRefetch ==
  \E h \in handlers :
    /\ h.stage = "served"
    /\ properties' = RefreshedProperties(h)
    /\ selectedPropertyId' = IF ClearsSelection(h) THEN 0 ELSE selectedPropertyId
    /\ isUpdating' = FALSE
    /\ handlers' = handlers \ {h}
    /\ UNCHANGED <<phases, marketMap, propertyPage, detailsCall, marketsVars, ret, dbVars, mounted, paramsId, load, market, loading,
                   effectDeps, channels, notifs, nEvents, nDelivered, nRefetch>>

InitPage ==
  /\ phases = <<>>
  /\ detailsCall = NoCall
  /\ MapIdle
  /\ PropertyIdle
  /\ MarketsIdle
  /\ ret = None
  /\ tblMarkets = SeedMarkets
  /\ tblProperties = <<>>
  /\ tblMarketUsers = SeedMarketUsers
  /\ tblMarketUpdates = <<>>
  /\ clock = 1
  /\ mounted = TRUE
  /\ paramsId \in AnyMarketId \ {"m2"}
  /\ load = [stage |-> "market"]
  /\ market = NullRow
  /\ properties = <<>>
  /\ loading = TRUE
  /\ isUpdating = FALSE
  /\ selectedPropertyId = 0
  /\ effectDeps = [marketId |-> "", sel |-> 0]
  /\ channels = {}
  /\ notifs = <<>>
  /\ handlers = {}
  /\ nEvents = 0
  /\ nDelivered = 0
  /\ nRefetch = 0

NextPage ==
  \/ LoadMarketResolved
  \/ ServeLoadProperties
  \/ LoadPropertiesResolved
  \/ RunSubscriptionEffect
  \/ Unmount
  \/ handlePropertySelect
  \/ BackendInsert
  \/ BackendUpdate
  \/ BackendDelete
  \/ DeliverNotification
  \/ ServeRefetch
  \/ ResolveRefetch

SpecPage == InitPage /\ [][NextPage]_vars

\* every request of loadData is answered, and loadData resumes, in the end
SpecPageLive ==
  /\ SpecPage
  /\ WF_vars(LoadMarketResolved)
  /\ WF_vars(ServeLoadProperties)
  /\ WF_vars(LoadPropertiesResolved)

-----------------------------------------------------------------------------
(* SpecDetails: one invocation of DataService.getMarketsWithDetails        *)
(* (data-service.ts:170-208) step by step.  After the market list has      *)
(* answered, two sub-fetches per market are in flight at once; the backend *)
(* answers them in any order and each market's callback completes when its *)
(* own two answers are in.                                                 *)

\* the 'properties' tables the invocation is run against
DetailsTables ==
  {<<>>,
   <<PropertyRow(1, "m1", Str_intro, 1)>>,
   <<PropertyRow(1, "m2", Str_loi, 1)>>,
   <<PropertyRow(1, "m1", Str_intro, 1), PropertyRow(2, "m1", Str_LOI, 2),
     PropertyRow(3, "m2", Str_intro, 3)>>}

InitDetails ==
  /\ phases = <<>>
  /\ ret = None
  /\ tblMarkets = SeedMarkets
  /\ tblProperties \in DetailsTables
  /\ tblMarketUsers = SeedMarketUsers
  /\ tblMarketUpdates = <<>>
  /\ clock = 4
  /\ PageIdle
  /\ detailsCall = NoCall
  /\ MapIdle
  /\ PropertyIdle
  /\ MarketsIdle

\* line 182: const markets = await this.getMarkets() is issued
StartGetMarketsWithDetails ==
  /\ ret = None
  /\ detailsCall = NoCall
  /\ detailsCall' = [stage |-> "markets"]
  /\ UNCHANGED <<phases, marketMap, propertyPage, ret, dbVars, pageVars, marketsVars>>

\* lines 186-189: the two requests of the callback for the market at pos
SubFetches(n) ==
  {[pos |-> i, kind |-> k, stage |-> "sent", err |-> FALSE, data |-> <<>>] :
     i \in 1..n, k \in {"properties", "franchisees"}}

\* lines 182-189: the market list answers; markets.map starts every
\* market's callback, each of which issues its two sub-fetches
MarketsAnswered ==
  /\ detailsCall.stage = "markets"
  /\ \E err \in BOOLEAN : \E ms \in getMarkets(err) :
       detailsCall' = [stage |-> "details", errM |-> err, markets |-> ms,
                       subs |-> SubFetches(Len(ms)), settled |-> {}, order |-> <<>>]
  /\ UNCHANGED <<phases, marketMap, propertyPage, ret, dbVars, pageVars, marketsVars>>

SubFetchAnswers(kind, marketId, err) ==
  IF kind = "properties" THEN getPropertiesByMarket(marketId, err)
                         ELSE getMarketFranchisees(marketId, err)

\* the backend answers one of the sub-fetches in flight, whichever
SubFetchAnswered ==
  /\ detailsCall.stage = "details"
  /\ \E s \in detailsCall.subs :
       /\ s.stage = "sent"
       /\ \E err \in BOOLEAN :
            \E data \in SubFetchAnswers(s.kind, detailsCall.markets[s.pos].id, err) :
              detailsCall' = [detailsCall EXCEPT !.subs =
                 (@ \ {s}) \cup {[s EXCEPT !.stage = "answered", !.err = err, !.data = data]}]
  /\ UNCHANGED <<phases, marketMap, propertyPage, ret, dbVars, pageVars, marketsVars>>

SubOf(i, kind) == CHOOSE s \in detailsCall.subs : s.pos = i /\ s.kind = kind

\* lines 186-203: the callback of the market at position i resumes once both
\* its answers are in and fulfils the i-th promise handed to Promise.all
MarketSettled ==
  /\ detailsCall.stage = "details"
  /\ \E i \in 1..Len(detailsCall.markets) :
       /\ \A e \in detailsCall.settled : e.pos # i
       /\ SubOf(i, "properties").stage = "answered"
       /\ SubOf(i, "franchisees").stage = "answered"
       /\ detailsCall' = [detailsCall EXCEPT
            !.settled = @ \cup {[pos |-> i,
                                 entry |-> DetailsEntry(detailsCall.markets[i],
                                                        SubOf(i, "properties").data,
                                                        SubOf(i, "franchisees").data)]},
            !.order = Append(@, i)]
  /\ UNCHANGED <<phases, marketMap, propertyPage, ret, dbVars, pageVars, marketsVars>>

EntryAt(settled, i) == (CHOOSE e \in settled : e.pos = i).entry

\* Promise.all (line 184): the value at index i is that of the i-th promise,
\* whenever it was fulfilled
Assemble_completionOrder(n, settled, order) == [k \in 1..n |-> EntryAt(settled, order[k])]

Assemble(n, settled, order) == [i \in 1..n |-> EntryAt(settled, i)]

ErredMarkets(kind) ==
  {detailsCall.markets[s.pos].id : s \in {t \in detailsCall.subs : t.kind = kind /\ t.err}}

\* lines 184, 207: every callback has completed; the list is returned
DetailsReturned ==
  /\ ret = None
  /\ detailsCall.stage = "details"
  /\ Cardinality(detailsCall.settled) = Len(detailsCall.markets)
  /\ ret' = [op |-> "getMarketsWithDetails",
             errM |-> detailsCall.errM,
             errP |-> ErredMarkets("properties"),
             errF |-> ErredMarkets("franchisees"),
             markets |-> detailsCall.markets,
             order |-> detailsCall.order,
             val |-> Assemble(Len(detailsCall.markets), detailsCall.settled,
                              detailsCall.order)]
  /\ detailsCall' = NoCall
  /\ UNCHANGED <<phases, marketMap, propertyPage, dbVars, pageVars, marketsVars>>

NextDetails ==
  \/ StartGetMarketsWithDetails
  \/ MarketsAnswered
  \/ SubFetchAnswered
  \/ MarketSettled
  \/ DetailsReturned
  \/ Return

SpecDetails == InitDetails /\ [][NextDetails]_vars

-----------------------------------------------------------------------------
(* SpecMarkets: MarketsPage (markets page, page.tsx:865-1044) with its     *)
(* MarketUpdateForm (market-update-form.tsx:21-61).  The view fetches its  *)
(* data once, when it mounts; the form and handleDeleteUpdate write to     *)
(* 'market_updates' through DataService.                                   *)

Str_MeridaPartners == <<"M","e","r","i","d","a"," ","P","a","r","t","n","e","r","s">>

\* a request of the view on its way: sent, then served by the backend
Request(req, id, marketId, message) ==
  [req |-> req, id |-> id, marketId |-> marketId, message |-> message,
   stage |-> "sent", val |-> NullRow]

\* page.tsx:1028-1044: the mount effect runs fetchData, which issues
\* getMarketsWithDetails() and fetchMarketUpdates() together
InitMarkets ==
  /\ phases = <<>>
  /\ ret = None
  /\ tblMarkets = SeedMarkets
  /\ tblProperties = <<>>
  /\ tblMarketUsers = SeedMarketUsers
  /\ tblMarketUpdates = SeedMarketUpdates
  /\ clock = 3
  /\ PageIdle
  /\ detailsCall = NoCall
  /\ MapIdle
  /\ PropertyIdle
  /\ marketsPage = [loading |-> TRUE, markets |-> <<>>, marketUpdates |-> <<>>,
                    editingUpdate |-> NullRow]
  /\ form = [message |-> Str_empty, isSubmitting |-> FALSE]
  /\ pending = <<Request("getMarketsWithDetails", 0, "", Str_empty),
                 Request("getMarketUpdates", 0, "", Str_empty)>>

\* what the backend does with request r: the tables afterwards and the value
Served(r) ==
  IF r.req = "getMarketUpdates"
    THEN {[tbl |-> tblMarketUpdates, val |-> v] :
            v \in UNION {getMarketUpdates(Undefined, err) : err \in BOOLEAN}}
  ELSE IF r.req = "getMarketsWithDetails"
    THEN {[tbl |-> tblMarketUpdates, val |-> v] :
            v \in UNION {getMarketsWithDetails(errM, {}, {}) : errM \in BOOLEAN}}
  ELSE IF r.req = "createMarketUpdate"
    THEN UNION {createMarketUpdate(r.marketId, Str_MeridaPartners, r.message, err) :
                  err \in BOOLEAN}
  ELSE IF r.req = "updateMarketUpdate"
    THEN UNION {updateMarketUpdate(r.id, r.message, err) : err \in BOOLEAN}
  ELSE UNION {deleteMarketUpdate(r.id, err) : err \in BOOLEAN}

\* the requests in flight without the k-th
Settle(k) == SubSeq(pending, 1, k - 1) \o SubSeq(pending, k + 1, Len(pending))

\* the backend answers one of the view's requests, whichever
ServeRequest ==
  /\ \E k \in 1..Len(pending) :
       /\ pending[k].stage = "sent"
       /\ \E o \in Served(pending[k]) :
            /\ tblMarketUpdates' = o.tbl
            /\ clock' = IF Len(o.tbl) > Len(tblMarketUpdates) THEN clock + 1 ELSE clock
            /\ pending' = [pending EXCEPT ![k].stage = "served", ![k].val = o.val]
  /\ UNCHANGED <<phases, marketMap, propertyPage, ret, tblMarkets, tblProperties, tblMarketUsers, pageVars,
                 detailsCall, marketsPage, form>>

\* page.tsx:995-1002: fetchMarketUpdates resumes and calls setMarketUpdates
FetchMarketUpdatesResolved ==
  /\ \E k \in 1..Len(pending) : LET r == pending[k] IN
       /\ r.req = "getMarketUpdates" /\ r.stage = "served"
       /\ marketsPage' = [marketsPage EXCEPT !.marketUpdates = r.val]
       /\ ret' = [op |-> "getMarketUpdates", marketId |-> Undefined, val |-> r.val]
       /\ pending' = Settle(k)
  /\ UNCHANGED <<phases, marketMap, propertyPage, dbVars, pageVars, detailsCall, form>>

\* page.tsx:1030-1040: both promises of fetchData's Promise.all are settled;
\* setMarkets(marketsWithDetails), and finally setLoading(false)
FetchDataResolved ==
  /\ \A j \in 1..Len(pending) : pending[j].req # "getMarketUpdates"
  /\ \E k \in 1..Len(pending) : LET r == pending[k] IN
       /\ r.req = "getMarketsWithDetails" /\ r.stage = "served"
       /\ marketsPage' = [marketsPage EXCEPT !.markets = r.val, !.loading = FALSE]
       /\ ret' = [op |-> "getMarketsWithDetails", errP |-> {}, errF |-> {}, val |-> r.val]
       /\ pending' = Settle(k)
  /\ UNCHANGED <<phases, marketMap, propertyPage, dbVars, pageVars, detailsCall, form>>

\* page.tsx:1009-1011 and market-update-form.tsx:32-35: an update of the list
\* is picked for editing; the form's effect copies its message
handleEditUpdate ==
  /\ ~marketsPage.loading
  /\ ~form.isSubmitting
  /\ \E i \in 1..Len(marketsPage.marketUpdates) :
       /\ marketsPage' = [marketsPage EXCEPT !.editingUpdate = marketsPage.marketUpdates[i]]
       /\ form' = [form EXCEPT !.message = marketsPage.marketUpdates[i].message]
  /\ UNCHANGED <<phases, marketMap, propertyPage, ret, dbVars, pageVars, detailsCall, pending>>

\* market-update-form.tsx:63-66 with page.tsx:1013-1015
handleCancel ==
  /\ marketsPage.editingUpdate # NullRow
  /\ ~form.isSubmitting
  /\ marketsPage' = [marketsPage EXCEPT !.editingUpdate = NullRow]
  /\ form' = [form EXCEPT !.message = Str_empty]
  /\ UNCHANGED <<phases, marketMap, propertyPage, ret, dbVars, pageVars, detailsCall, pending>>

Str_spaces == <<" ", " ">>

\* what the user may have typed: a message or blanks only
FormMessages == Messages \cup {Str_spaces}

\* the Textarea's onChange: setMessage(e.target.value); disabled while submitting
TypeMessage ==
  /\ ~marketsPage.loading
  /\ ~form.isSubmitting
  /\ \E msg \in FormMessages : msg # form.message /\ form' = [form EXCEPT !.message = msg]
  /\ UNCHANGED <<phases, marketMap, propertyPage, ret, dbVars, pageVars, detailsCall, marketsPage, pending>>

Whitespace == {" ", "\t", "\n"}

RECURSIVE trimStart(_)
trimStart(s) == IF Len(s) > 0 /\ Head(s) \in Whitespace THEN trimStart(Tail(s)) ELSE s

RECURSIVE trimEnd(_)
trimEnd(s) ==
  IF Len(s) > 0 /\ s[Len(s)] \in Whitespace THEN trimEnd(SubSeq(s, 1, Len(s) - 1)) ELSE s

trim_none(s) == s

\* String.prototype.trim
trim(s) == trimEnd(trimStart(s))

\* market-update-form.tsx:37-49: handleSubmit up to its await.  marketId is
\* the form's prop, "" when the parent passes none; line 40 returns for a
\* blank message or a missing marketId
handleSubmit ==
  /\ ~marketsPage.loading
  /\ ~form.isSubmitting
  /\ \E marketId \in ClientMarketIds \cup {""} :
       /\ trim(form.message) # Str_empty
       /\ marketId # ""
       /\ pending' = Append(pending,
          IF marketsPage.editingUpdate # NullRow
          THEN Request("updateMarketUpdate", marketsPage.editingUpdate.id, "", form.message)
          ELSE Request("createMarketUpdate", 0, marketId, form.message))
  /\ marketsPage.editingUpdate = NullRow => clock <= MaxUpdates
  /\ form' = [form EXCEPT !.isSubmitting = TRUE]
  /\ UNCHANGED <<phases, marketMap, propertyPage, ret, dbVars, pageVars, detailsCall, marketsPage>>

\* market-update-form.tsx:53-60: handleSubmit resumes: setMessage(''),
\* onCancelEdit(), and finally setIsSubmitting(false); onUpdate is not called
SubmitResolved ==
  /\ \E k \in 1..Len(pending) : LET r == pending[k] IN
       /\ r.req \in {"createMarketUpdate", "updateMarketUpdate"} /\ r.stage = "served"
       /\ ret' = [op |-> r.req, id |-> r.id, marketId |-> r.marketId,
                  message |-> r.message, val |-> r.val]
       /\ pending' = Settle(k)
  /\ form' = [message |-> Str_empty, isSubmitting |-> FALSE]
  /\ marketsPage' = [marketsPage EXCEPT !.editingUpdate = NullRow]
  /\ UNCHANGED <<phases, marketMap, propertyPage, dbVars, pageVars, detailsCall>>

\* page.tsx:1017-1026: handleDeleteUpdate(updateId), confirmed, up to its await
\* (one deletion in flight at a time)
handleDeleteUpdate ==
  /\ ~marketsPage.loading
  /\ \E i \in 1..Len(marketsPage.marketUpdates) :
       /\ \A j \in 1..Len(pending) : pending[j].req # "deleteMarketUpdate"
       /\ pending' = Append(pending,
            Request("deleteMarketUpdate", marketsPage.marketUpdates[i].id, "", Str_empty))
  /\ UNCHANGED <<phases, marketMap, propertyPage, ret, dbVars, pageVars, detailsCall, marketsPage, form>>

\* page.tsx:1020-1024: handleDeleteUpdate resumes; it sets no state
DeleteResolved ==
  /\ \E k \in 1..Len(pending) : LET r == pending[k] IN
       /\ r.req = "deleteMarketUpdate" /\ r.stage = "served"
       /\ ret' = [op |-> r.req, id |-> r.id, val |-> r.val]
       /\ pending' = Settle(k)
  /\ UNCHANGED <<phases, marketMap, propertyPage, dbVars, pageVars, detailsCall, marketsPage, form>>

NextMarkets ==
  \/ ServeRequest
  \/ FetchMarketUpdatesResolved
  \/ FetchDataResolved
  \/ handleEditUpdate
  \/ handleCancel
  \/ TypeMessage
  \/ handleSubmit
  \/ SubmitResolved
  \/ handleDeleteUpdate
  \/ DeleteResolved

SpecMarkets == InitMarkets /\ [][NextMarkets]_vars

-----------------------------------------------------------------------------
(* SpecMarketList: DataService.getMarkets (data-service.ts:9-22) called    *)
(* twice in a row against one 'markets' table, over every small table:     *)
(* markets of this client and of another, names that differ or coincide.   *)

MaxMarkets == 3      \* rows of the 'markets' table
IdPool == <<"m1", "m2", "m3", "m4", "m5">>

\* the tables of n rows: row i has the i-th id, any owner, name "a" or "b"
MarketTablesOf(n) ==
  {[i \in 1..n |-> MarketRow(IdPool[i], f[i][1], f[i][2])] :
     f \in [1..n -> {CLIENT_ID, OTHER_CLIENT} \X {Str_a, Str_b}]}

InitMarketList ==
  /\ phases = <<>>
  /\ ret = None
  /\ tblMarkets \in UNION {MarketTablesOf(n) : n \in 0..MaxMarkets}
  /\ tblProperties = <<>>
  /\ tblMarketUsers = <<>>
  /\ tblMarketUpdates = <<>>
  /\ clock = 1
  /\ PageIdle
  /\ detailsCall = NoCall
  /\ MapIdle
  /\ PropertyIdle
  /\ MarketsIdle

\* getMarkets() and then getMarkets() again, nothing written in between
CallGetMarketsTwice ==
  /\ ret = None
  /\ \E err1 \in BOOLEAN, err2 \in BOOLEAN :
       \E v1 \in getMarkets(err1), v2 \in getMarkets(err2) :
         ret' = [op |-> "getMarkets;getMarkets", err1 |-> err1, err2 |-> err2,
                 first |-> v1, second |-> v2]
  /\ UNCHANGED <<phases, marketMap, propertyPage, dbVars, pageVars, detailsCall, marketsVars>>

NextMarketList ==
  \/ CallGetMarketsTwice
  \/ Return

SpecMarketList == InitMarketList /\ [][NextMarketList]_vars

-----------------------------------------------------------------------------
(* SpecStats: DataService.getDashboardStats (data-service.ts:102-125)      *)
(* against 'properties' tables of up to one row more than the five that    *)
(* recentProperties keeps, stored out of creation order.                   *)

\* which market the i-th stored property belongs to, in three layouts
StatsMarketOf(layout, i) ==
  IF layout = 1 THEN "m1"
  ELSE IF layout = 2 THEN (IF i % 2 = 1 THEN "m1" ELSE "m2")
  ELSE (IF i % 3 = 1 THEN "m1" ELSE IF i % 3 = 2 THEN "m2" ELSE "m3")

\* n rows; the creation times 3, 6, 2, 5, 1, 4 differ and are not in row order
StatsTable(layout, n) ==
  [i \in 1..n |-> PropertyRow(i, StatsMarketOf(layout, i), Str_intro, (3 * i) % 7)]

InitStats ==
  /\ phases = <<>>
  /\ ret = None
  /\ tblMarkets = SeedMarkets
  /\ tblProperties \in {StatsTable(layout, n) : layout \in 1..3, n \in 0..(RecentCount + 1)}
  /\ tblMarketUsers = SeedMarketUsers
  /\ tblMarketUpdates = <<>>
  /\ clock = 8
  /\ PageIdle
  /\ detailsCall = NoCall
  /\ MapIdle
  /\ PropertyIdle
  /\ MarketsIdle

NextStats ==
  \/ CallGetDashboardStats
  \/ Return

SpecStats == InitStats /\ [][NextStats]_vars

-----------------------------------------------------------------------------
(* SpecMap: the MarketMap component (components/market-map.tsx) under a    *)
(* parent that re-renders it with other properties lists.  The map object  *)
(* is created by the mount effect; markers.current is the list of pins on  *)
(* the map, each named by the id of its property.                          *)
(* A coordinate is <<n>> for the number n and <<>> for null or undefined.  *)

MaxMapProps == 3     \* properties in a list handed to the map

NoCoord == <<>>

MapProperty(id, lat, lng) == [id |-> id, lat |-> lat, lng |-> lng]

\* the properties a list may hold: with both coordinates, with one missing,
\* and with a coordinate that is the number 0
MapPool ==
  {MapProperty(1, <<40>>, <<-100>>),
   MapProperty(2, NoCoord, <<-100>>),
   MapProperty(3, <<40>>, NoCoord),
   MapProperty(4, <<0>>, <<-78>>),
   MapProperty(5, <<41>>, <<-99>>)}

MapLists ==
  UNION {{ps \in [1..n -> MapPool] : \A i, j \in 1..n : i # j => ps[i] # ps[j]} :
           n \in 0..MaxMapProps}

\* Boolean(c) for a coordinate: null, undefined and 0 are falsy
TruthyCoord(c) == c # NoCoord /\ c[1] # 0

\* line 140: properties.filter(p => p.lat && p.lng)
ValidProperties(ps) == SelectSeq(ps, LAMBDA p : TruthyCoord(p.lat) /\ TruthyCoord(p.lng))

\* lines 125-202, the markers effect: nothing is done before the map has
\* loaded or for an empty list; else every marker is removed and one is added
\* per valid property
MarkersEffect(isLoaded, ps, markers) ==
  IF ~isLoaded \/ Len(ps) = 0 THEN markers
  ELSE [i \in 1..Len(ValidProperties(ps)) |-> ValidProperties(ps)[i].id]

\* lines 102-122: the cleanup of the map effect removes every marker (and the
\* map, which the effect's next run creates again)
MapEffectCleanup(markers) == <<>>

\* as mounted: the map effect has created the map, which has not loaded yet
InitMap ==
  /\ phases = <<>>
  /\ ret = None
  /\ DbIdle
  /\ PageIdle
  /\ detailsCall = NoCall
  /\ MarketsIdle
  /\ PropertyIdle
  /\ \E ps \in MapLists :
       marketMap = [isLoaded |-> FALSE, properties |-> ps, markers |-> <<>>]

\* lines 81-82: the map's 'load' event sets isLoaded, a dependency of the
\* markers effect, which runs again
MapLoaded ==
  /\ ~marketMap.isLoaded
  /\ marketMap' = [marketMap EXCEPT
       !.isLoaded = TRUE,
       !.markers = MarkersEffect(TRUE, marketMap.properties, marketMap.markers)]
  /\ UNCHANGED <<phases, propertyPage, ret, dbVars, pageVars, detailsCall, marketsVars>>

\* the parent renders the map with a properties list ps.  When it also hands
\* over new callback functions (newCallbacks), handleMapClick changes (line
\* 66) and with it the map effect's dependency (line 123): its cleanup runs
\* and the map is created again.  Then the markers effect runs.
RenderMarketMap ==
  /\ \E ps \in MapLists, newCallbacks \in BOOLEAN :
       marketMap' = [marketMap EXCEPT
         !.properties = ps,
         !.markers = MarkersEffect(marketMap.isLoaded, ps,
                        IF newCallbacks THEN MapEffectCleanup(marketMap.markers)
                                        ELSE marketMap.markers)]
  /\ UNCHANGED <<phases, propertyPage, ret, dbVars, pageVars, detailsCall, marketsVars>>

NextMap ==
  \/ MapLoaded
  \/ RenderMarketMap

SpecMap == InitMap /\ [][NextMap]_vars

-----------------------------------------------------------------------------
(* SpecProperty: PropertyPage's initial load (properties/columns.tsx:      *)
(* 155-234) against 'properties' tables whose rows name a market of this   *)
(* client, of another client, a market that does not exist, or none.       *)

\* the page's own fetches (lines 155-181): .eq('id', id).single()
propertyPageGetProperty(id, err) ==
  LET rows == SelectSeq(tblProperties, LAMBDA p : p.id = id)
  IN IF err \/ Len(rows) # 1 THEN {NullRow} ELSE {rows[1]}

propertyPageGetMarket(id, err) ==
  LET rows == SelectSeq(tblMarkets, LAMBDA m : m.id = id)
  IN IF err \/ Len(rows) # 1 THEN {NullRow}
     ELSE {[id |-> rows[1].id, name |-> rows[1].name]}

\* market_id of a stored property: "" is null
ParentChoices == {"m1", "m3", "m9", ""}

PropertyPageTables(n) ==
  {[i \in 1..n |-> PropertyRow(i, f[i], Str_intro, i)] : f \in [1..n -> ParentChoices]}

InitProperty ==
  /\ phases = <<>>
  /\ ret = None
  /\ tblMarkets = SeedMarkets
  /\ tblProperties \in UNION {PropertyPageTables(n) : n \in 0..MaxProps}
  /\ tblMarketUsers = SeedMarketUsers
  /\ tblMarketUpdates = <<>>
  /\ clock = MaxProps + 1
  /\ PageIdle
  /\ detailsCall = NoCall
  /\ MarketsIdle
  /\ MapIdle
  /\ \E id \in 1..MaxProps :
       propertyPage = [stage |-> "property", id |-> id, property |-> NullRow,
                       market |-> NullRow, loading |-> TRUE]

\* lines 193-211: getProperty has answered.  Without a row notFound() throws
\* (the catch block throws again) and finally clears loading; with a row
\* that names a market getMarket is awaited; else the row is set with market
\* null and loading is cleared
PropertyLoadResolved ==
  /\ propertyPage.stage = "property"
  /\ \E err \in BOOLEAN : \E propertyData \in propertyPageGetProperty(propertyPage.id, err) :
       propertyPage' =
         IF propertyData = NullRow
           THEN [propertyPage EXCEPT !.stage = "done", !.loading = FALSE]
         ELSE IF propertyData.market_id # ""
           THEN [stage |-> "market", id |-> propertyPage.id, property |-> NullRow,
                 market |-> NullRow, loading |-> TRUE, propertyData |-> propertyData]
         ELSE [propertyPage EXCEPT !.stage = "done", !.property = propertyData,
                                   !.market = NullRow, !.loading = FALSE]
  /\ UNCHANGED <<phases, marketMap, ret, dbVars, pageVars, detailsCall, marketsVars>>

\* lines 201-210: getMarket has answered; setProperty, setMarket (null when
\* no market was found), and finally setLoading(false)
PropertyMarketResolved ==
  /\ propertyPage.stage = "market"
  /\ \E err \in BOOLEAN :
       \E marketData \in propertyPageGetMarket(propertyPage.propertyData.market_id, err) :
         propertyPage' = [stage |-> "done", id |-> propertyPage.id,
                          property |-> propertyPage.propertyData,
                          market |-> marketData, loading |-> FALSE]
  /\ UNCHANGED <<phases, marketMap, ret, dbVars, pageVars, detailsCall, marketsVars>>

NextProperty ==
  \/ PropertyLoadResolved
  \/ PropertyMarketResolved

SpecProperty == InitProperty /\ [][NextProperty]_vars

-----------------------------------------------------------------------------
(* Claims                                                                  *)

\* The precedence of a phase string as the contract words it: the position of
\* its lowercase form in intro < site_selection < loi < lease < closed, and
\* -1 for an unrecognized string.  Written out per string, independently of
\* toLowerCase and indexOf.
KnownRank(p) ==
  IF p = Str_intro THEN 0
  ELSE IF p = Str_site_selection THEN 1
  ELSE IF p \in {Str_loi, Str_LOI} THEN 2
  ELSE IF p \in {Str_lease, Str_Lease} THEN 3
  ELSE IF p \in {Str_closed, Str_Closed} THEN 4
  ELSE -1

HasRecognized(ps) == \E i \in 1..Len(ps) : KnownRank(ps[i]) >= 0

\* C1: for a non-empty list holding at least one recognized phase,
\* getFurthestPhase returns an element of the list, in its original casing,
\* whose precedence is the highest among all elements of the list.
C1_FurthestIsMaxOfInput ==
  (ret.op = "getFurthestPhase" /\ Len(phases) > 0 /\ HasRecognized(phases))
    => /\ \E i \in 1..Len(phases) : phases[i] = ret.val
       /\ \A i \in 1..Len(phases) : KnownRank(phases[i]) <= KnownRank(ret.val)

C1_Witness ==
  /\ ret.op = "getFurthestPhase"
  /\ phases = <<Str_LOI, Str_Closed>>
  /\ ret.val = Str_Closed

\* C2 as claimed: for a non-empty list with no recognized phase,
\* getFurthestPhase returns the first element of the list.
C2_UnrecognizedReturnsFirst ==
  (ret.op = "getFurthestPhase" /\ Len(phases) > 0 /\ ~HasRecognized(phases))
    => ret.val = phases[1]

\* C2, amended: for a non-empty list with no recognized phase,
\* getFurthestPhase returns null (index -1 never exceeds the initial -1).
C2_UnrecognizedReturnsNull ==
  (ret.op = "getFurthestPhase" /\ Len(phases) > 0 /\ ~HasRecognized(phases))
    => ret.val = Null

C2_Witness ==
  /\ ret.op = "getFurthestPhase"
  /\ phases = <<Str_bogus_phase, Str_pending>>
  /\ ret.val = Null

\* the phases stored on the properties of market mid
StoredPhases(mid) ==
  {tblProperties[i].phase : i \in {j \in 1..Len(tblProperties) : tblProperties[j].market_id = mid}}

MaxRank(ps) == CHOOSE r \in {KnownRank(p) : p \in ps} : \A p \in ps : KnownRank(p) <= r

\* C3 as claimed: every entry of getMarketsWithDetails whose market has a
\* property with a recognized phase carries exactly one phase, of the highest
\* precedence found among the market's properties.
C3_SingleFurthestPhase ==
  ret.op = "getMarketsWithDetails" =>
    \A i \in 1..Len(ret.val) :
      (\E p \in StoredPhases(ret.val[i].id) : KnownRank(p) >= 0)
        => /\ Len(ret.val[i].phases) = 1
           /\ ret.val[i].phases[1] \in StoredPhases(ret.val[i].id)
           /\ KnownRank(ret.val[i].phases[1]) = MaxRank(StoredPhases(ret.val[i].id))

\* C3, amended: the same, for every entry whose properties sub-fetch was
\* answered without an error.
C3_SingleFurthestPhaseWhenFetched ==
  ret.op = "getMarketsWithDetails" =>
    \A i \in 1..Len(ret.val) :
      (/\ ret.val[i].id \notin ret.errP
       /\ \E p \in StoredPhases(ret.val[i].id) : KnownRank(p) >= 0)
        => /\ Len(ret.val[i].phases) = 1
           /\ ret.val[i].phases[1] \in StoredPhases(ret.val[i].id)
           /\ KnownRank(ret.val[i].phases[1]) = MaxRank(StoredPhases(ret.val[i].id))

\* intro, LOI and bogus_phase stored in market m1, the unrecognized one newest
C3_Witness ==
  /\ ret.op = "getMarketsWithDetails"
  /\ ret.errP = {}
  /\ StoredPhases("m1") = {Str_intro, Str_LOI, Str_bogus_phase}
  /\ tblProperties[Len(tblProperties)].phase = Str_bogus_phase
  /\ \E i \in 1..Len(ret.val) : ret.val[i].id = "m1" /\ ret.val[i].phases = <<Str_LOI>>

\* C4: an entry of getMarketsWithDetails for a market that has no properties
\* has propertyCount = 0 and phases = [].
C4_NoPropertiesNoPhases ==
  ret.op = "getMarketsWithDetails" =>
    \A i \in 1..Len(ret.val) :
      StoredPhases(ret.val[i].id) = {}
        => ret.val[i].propertyCount = 0 /\ ret.val[i].phases = <<>>

C4_Witness ==
  /\ ret.op = "getMarketsWithDetails"
  /\ StoredPhases("m1") # {}
  /\ \E i \in 1..Len(ret.val) :
       /\ ret.val[i].id = "m2"
       /\ ret.val[i].propertyCount = 0
       /\ ret.val[i].phases = <<>>

\* the client that owns market mid, "" when no such market exists
ClientOf(mid) ==
  IF \E i \in 1..Len(tblMarkets) : tblMarkets[i].id = mid
  THEN tblMarkets[CHOOSE i \in 1..Len(tblMarkets) : tblMarkets[i].id = mid].client_id
  ELSE ""

\* C5: getPropertiesByMarket(marketId) returns no property of another market
\* and no property whose parent market belongs to another client.
C5_PropertiesScoped ==
  ret.op = "getPropertiesByMarket" =>
    \A i \in 1..Len(ret.val) :
      /\ ret.val[i].market_id = ret.marketId
      /\ ClientOf(ret.val[i].market_id) = CLIENT_ID

\* asked for the other client's market, which has a property: nothing returned
C5_Witness ==
  /\ ret.op = "getPropertiesByMarket"
  /\ ret.marketId = "m3"
  /\ ~ret.err
  /\ StoredPhases("m3") # {}
  /\ StoredPhases("m1") # {}
  /\ ret.val = <<>>

\* C6: every market returned by getMarkets, by getMarket(id) or by the market
\* page's own fetch belongs to the fixed client.
C6_OnlyFixedClientVisible ==
  /\ ret.op = "getMarkets" =>
       \A i \in 1..Len(ret.val) : ret.val[i].client_id = CLIENT_ID
  /\ (ret.op \in {"getMarket", "page.getMarket"} /\ ret.val # NullRow) =>
       ret.val.client_id = CLIENT_ID

SingleQueryListOps ==
  {"getMarkets", "getProperties", "getPropertiesByMarket", "getMarketFranchisees",
   "getMarketUpdates"}
SingleRowOps == {"getMarket", "getProperty"}

EmptyStats ==
  [totalMarkets |-> 0, totalProperties |-> 0, recentProperties |-> <<>>,
   marketPropertyCounts |-> <<>>]

\* C7 as claimed: a read operation during which the backend reports an error
\* returns its empty sentinel (an empty list, null, and for the dashboard the
\* all-empty statistics).
C7_ReadErrorGivesSentinel ==
  /\ (ret.op \in SingleQueryListOps /\ ret.err) => ret.val = <<>>
  /\ (ret.op \in SingleRowOps /\ ret.err) => ret.val = NullRow
  /\ (ret.op = "getMarketsWithDetails" /\ (ret.errM \/ ret.errP # {} \/ ret.errF # {}))
       => ret.val = <<>>
  /\ (ret.op = "getDashboardStats" /\ (ret.errM \/ ret.errA \/ ret.errP # {}))
       => ret.val = EmptyStats

\* C7, amended: every single-query read returns its empty sentinel on a
\* backend error; an aggregate degrades query by query: the failed market list
\* gives an empty list (no markets, no counts), and otherwise every market
\* keeps its entry, a failed sub-fetch contributing 0 / [] to that entry only.
C7_ReadErrorDegradesPerQuery ==
  /\ (ret.op \in SingleQueryListOps /\ ret.err) => ret.val = <<>>
  /\ (ret.op \in SingleRowOps /\ ret.err) => ret.val = NullRow
  /\ ret.op = "getMarketsWithDetails" =>
       /\ ret.errM => ret.val = <<>>
       /\ ~ret.errM => Len(ret.val) = Cardinality(ClientMarketIds)
       /\ \A i \in 1..Len(ret.val) :
            /\ ret.val[i].id \in ret.errP =>
                 ret.val[i].propertyCount = 0 /\ ret.val[i].phases = <<>>
            /\ ret.val[i].id \in ret.errF => ret.val[i].franchisees = <<>>
  /\ ret.op = "getDashboardStats" =>
       /\ ret.errM => ret.val.totalMarkets = 0 /\ ret.val.marketPropertyCounts = <<>>
       /\ ret.errA => ret.val.totalProperties = 0 /\ ret.val.recentProperties = <<>>
       /\ ~ret.errM => Len(ret.val.marketPropertyCounts) = Cardinality(ClientMarketIds)
       /\ \A i \in 1..Len(ret.val.marketPropertyCounts) :
            ret.val.marketPropertyCounts[i].marketId \in ret.errP =>
              ret.val.marketPropertyCounts[i].propertyCount = 0

\* the properties sub-fetch of m1, which has properties, fails: both markets
\* keep their entries and m1's shows no properties
C7_Witness ==
  /\ ret.op = "getMarketsWithDetails"
  /\ ~ret.errM
  /\ ret.errP = {"m1"}
  /\ StoredPhases("m1") # {}
  /\ Len(ret.val) = 2
  /\ \E i \in 1..Len(ret.val) : ret.val[i].id = "m1" /\ ret.val[i].propertyCount = 0

\* C8: on a backend error createMarketUpdate and updateMarketUpdate return
\* null and deleteMarketUpdate returns false; deleteMarketUpdate returns true
\* only when the backend reported no error.
C8_WriteErrorGivesSentinel ==
  /\ (ret.op \in {"createMarketUpdate", "updateMarketUpdate"} /\ ret.err)
       => ret.val = NullRow
  /\ (ret.op = "deleteMarketUpdate" /\ ret.err) => ret.val = FALSE
  /\ (ret.op = "deleteMarketUpdate" /\ ret.val = TRUE) => ~ret.err

\* a delete of an existing row fails: false is returned, the row is still there
C8_Witness ==
  /\ ret.op = "deleteMarketUpdate"
  /\ ret.err
  /\ ret.val = FALSE
  /\ \E i \in 1..Len(tblMarketUpdates) : tblMarketUpdates[i].id = ret.id

\* C9: at most one realtime subscription is live per market id, it is the one
\* the subscription effect's last run opened (an earlier run's channel is
\* removed before the next is opened), and none is live after unmount.
C9_AtMostOneSubscription ==
  /\ \A m \in MarketIds : Cardinality({c \in channels : c.marketId = m}) <= 1
  /\ channels \subseteq {effectDeps}
  /\ ~mounted => channels = {}

\* the effect has re-run for a selection change and holds the one channel
C9_Witness ==
  /\ mounted
  /\ selectedPropertyId = 1
  /\ channels = {[marketId |-> "m1", sel |-> 1]}
  /\ nDelivered > 0

\* C10: every notification handed to the page's channel callback, whatever
\* its kind, issues exactly one getPropertiesByMarket re-fetch, and when a
\* callback resumes the properties list becomes exactly the list it fetched.
C10_EveryNotificationRefetches ==
  /\ [](nRefetch = nDelivered)
  /\ [][\A h \in handlers :
          (h.stage = "served" /\ h \notin handlers') => properties' = h.data]_vars

\* an INSERT and an UPDATE were delivered, both re-fetches have resolved and
\* the list shows the updated row
C10_Witness ==
  /\ nDelivered = 2
  /\ nRefetch = 2
  /\ handlers = {}
  /\ notifs = <<>>
  /\ Len(properties) = 1
  /\ properties[1].phase = Str_loi

\* C11: when the callback of a DELETE notification for the property that is
\* selected at that moment completes, the selection is null afterwards, also
\* when the selection was made while the callback's re-fetch was in flight.
C11_DeleteOfSelectedClearsSelection ==
  [][\A h \in handlers :
       (/\ h.stage = "served"
        /\ h \notin handlers'
        /\ h.eventType = "DELETE"
        /\ selectedPropertyId = h.oldId) => selectedPropertyId' = 0]_vars

\* the list a single fetch issued now, and answered without error, would return
FreshList == getPropertiesByMarket(market.id, FALSE)

\* every mutation committed so far was announced to the page's channel and
\* every callback has completed; at least two notifications were handled
AllNotificationsHandled ==
  /\ mounted
  /\ market # NullRow
  /\ nDelivered >= 2
  /\ nDelivered = nEvents
  /\ notifs = <<>>
  /\ handlers = {}

\* C12 as stated: once two back-to-back notifications have both been handled
\* the local list equals the list of one fetch made after both mutations,
\* in whatever order the two re-fetches were served and resolved.  (A list
\* that is not empty was not produced by a failed fetch, which yields [].)
C12_BackToBackConverges ==
  (AllNotificationsHandled /\ properties # <<>>) => properties \in FreshList

\* C12: when the callback that completes last carries the list of a fetch
\* served after both mutations, the final local list is that fresh list;
\* otherwise the list of the callback that resumed last stays (C10).
C12_LastResolvedFreshConverges ==
  [][\A h \in handlers :
       (/\ h.stage = "served"
        /\ handlers' = {}
        /\ h.data \in getPropertiesByMarket(h.marketId, FALSE)
        /\ AllNotificationsHandled') => properties' \in FreshList']_vars

\* two notifications handled and the list on display is the fresh, non-empty one
C12_Witness ==
  /\ AllNotificationsHandled
  /\ properties # <<>>
  /\ properties \in FreshList
  /\ \E i \in 1..Len(properties) : properties[i].phase = Str_loi

StoredFranchisees(mid) ==
  {tblMarketUsers[i].users : i \in {j \in 1..Len(tblMarketUsers) :
      /\ tblMarketUsers[j].market_id = mid
      /\ tblMarketUsers[j].role = "franchisee"
      /\ tblMarketUsers[j].users.role = "franchisee"}}

StoredCount(mid) ==
  Cardinality({j \in 1..Len(tblProperties) : tblProperties[j].market_id = mid})

\* C14: in whatever order the sub-fetches of getMarketsWithDetails are
\* answered and its per-market callbacks complete, the returned list has the
\* length and order of the market list, and entry i carries the property
\* count, the phases and the franchisees of the market at position i.
C14_DetailsPositional ==
  ret.op = "getMarketsWithDetails" =>
    /\ ret.markets \in getMarkets(ret.errM)
    /\ Len(ret.val) = Len(ret.markets)
    /\ \A i \in 1..Len(ret.markets) :
         LET m == ret.markets[i]
             e == ret.val[i]
         IN /\ e.id = m.id /\ e.name = m.name /\ e.client_id = m.client_id
            /\ e.propertyCount = IF m.id \in ret.errP THEN 0 ELSE StoredCount(m.id)
            /\ (m.id \in ret.errP \/ \A p \in StoredPhases(m.id) : KnownRank(p) < 0)
                 => e.phases = <<>>
            /\ (m.id \notin ret.errP /\ \E p \in StoredPhases(m.id) : KnownRank(p) >= 0)
                 => /\ Len(e.phases) = 1
                    /\ e.phases[1] \in StoredPhases(m.id)
                    /\ KnownRank(e.phases[1]) = MaxRank(StoredPhases(m.id))
            /\ {e.franchisees[k] : k \in 1..Len(e.franchisees)} =
                 IF m.id \in ret.errF THEN {} ELSE StoredFranchisees(m.id)

\* the callback of the second market completed before that of the first,
\* and the two markets' details differ
C14_Witness ==
  /\ ret.op = "getMarketsWithDetails"
  /\ ret.order = <<2, 1>>
  /\ ret.errP = {} /\ ret.errF = {}
  /\ ret.val[1].id = "m2" /\ ret.val[1].propertyCount = 1 /\ ret.val[1].franchisees = <<>>
  /\ ret.val[2].id = "m1" /\ ret.val[2].propertyCount = 2 /\ ret.val[2].phases = <<Str_LOI>>

\* the list v shows the row that the last createMarketUpdate returned
ShowsCreated(v) ==
  \E i \in 1..Len(v) : /\ v[i].id = ret.val.id
                       /\ v[i].message = ret.message
                       /\ v[i].author = ret.author
                       /\ v[i].market_id = ret.marketId

\* C15 as stated: once createMarketUpdate(m, author, message) has returned a
\* row, any getMarketUpdates(m) made before another mutation includes a row
\* with that id, message, author and market_id = m.
C15_CreateThenFetchIncludes ==
  (ret.op = "createMarketUpdate" /\ ret.val # NullRow) =>
     \A err \in BOOLEAN : \A v \in getMarketUpdates(ret.marketId, err) : ShowsCreated(v)

\* C15: the same for every getMarketUpdates(m) that the backend answers
\* without an error (one answered with an error returns []).
C15_CreateThenAnsweredFetchIncludes ==
  (ret.op = "createMarketUpdate" /\ ret.val # NullRow) =>
     \A v \in getMarketUpdates(ret.marketId, FALSE) : ShowsCreated(v)

\* a second row was created in m1 while another market holds a row too
C15_Witness ==
  /\ ret.op = "createMarketUpdate"
  /\ ret.val # NullRow
  /\ ret.marketId = "m1"
  /\ Len(tblMarketUpdates) = 3
  /\ \E i \in 1..3 : tblMarketUpdates[i].market_id = "m2"
  /\ \E i \in 1..3 : tblMarketUpdates[i].market_id = "m1" /\ tblMarketUpdates[i].id # ret.val.id

\* the step is a call of updateMarketUpdate that returns a row
UpdateSucceeds == ret = None /\ ret'.op = "updateMarketUpdate" /\ ret'.val # NullRow

\* every row but the one with the given id is the same before and after the step
OtherRowsKept(id) ==
  /\ Len(tblMarketUpdates') = Len(tblMarketUpdates)
  /\ \A k \in 1..Len(tblMarketUpdates) :
       tblMarketUpdates[k].id # id => tblMarketUpdates'[k] = tblMarketUpdates[k]

\* after the step, the fetch answers for market mm (erring or not, as errs
\* allows) show row old with the new message and nothing else changed
ShowsEdited(old, mm, errs) ==
  \A err \in errs : \A v \in getMarketUpdates(mm, err)' :
     \E i \in 1..Len(v) : /\ v[i].id = old.id
                          /\ v[i].message = ret'.message
                          /\ v[i].market_id = old.market_id
                          /\ v[i].author = old.author

\* C16 as stated: once updateMarketUpdate(id, newMessage) has returned a
\* row, a re-fetch shows the row with that id carrying the new message and
\* its former id, market_id and author, and no other row was changed.
C16_EditThenFetchShows ==
  [][UpdateSucceeds =>
       /\ OtherRowsKept(ret'.id)
       /\ \A k \in 1..Len(tblMarketUpdates) : \A mm \in MarketIds \cup {""} :
            (tblMarketUpdates[k].id = ret'.id /\ mm \in {"", tblMarketUpdates[k].market_id})
              => ShowsEdited(tblMarketUpdates[k], mm, BOOLEAN)]_vars

\* C16: the same for every re-fetch that the backend answers without an error.
C16_EditThenAnsweredFetchShows ==
  [][UpdateSucceeds =>
       /\ OtherRowsKept(ret'.id)
       /\ \A k \in 1..Len(tblMarketUpdates) : \A mm \in MarketIds \cup {""} :
            (tblMarketUpdates[k].id = ret'.id /\ mm \in {"", tblMarketUpdates[k].market_id})
              => ShowsEdited(tblMarketUpdates[k], mm, {FALSE})]_vars

\* row 1 was edited from hello to bye while row 2 keeps hello
C16_Witness ==
  /\ ret.op = "updateMarketUpdate"
  /\ ret.val # NullRow
  /\ ret.id = 1
  /\ ret.message = Str_bye
  /\ Len(tblMarketUpdates) >= 2
  /\ tblMarketUpdates[1].message = Str_bye
  /\ tblMarketUpdates[2].message = Str_hello

\* the step is a call of deleteMarketUpdate that returns true
DeleteSucceeds == ret = None /\ ret'.op = "deleteMarketUpdate" /\ ret'.val = TRUE

UpdateIds == {tblMarketUpdates[i].id : i \in 1..Len(tblMarketUpdates)}

\* C17: once deleteMarketUpdate(id) has returned true, no fetch of updates,
\* erring or not, contains a row with that id, now or at any later time
\* (ids are not generated twice); every other row is still stored as it was
\* and is listed by every fetch for its market that is answered without error.
C17_DeletedStaysAbsent ==
  /\ [][DeleteSucceeds =>
          /\ \A mm \in MarketIds \cup {""} : \A err \in BOOLEAN :
               \A v \in getMarketUpdates(mm, err)' :
                  \A i \in 1..Len(v) : v[i].id # ret'.id
          /\ \A k \in 1..Len(tblMarketUpdates) :
               tblMarketUpdates[k].id # ret'.id =>
                 \A mm \in MarketIds :
                    mm = tblMarketUpdates[k].market_id =>
                      \A v \in getMarketUpdates(mm, FALSE)' :
                         \E i \in 1..Len(v) : v[i] = tblMarketUpdates[k]]_vars
  /\ [][\A id \in 1..(clock - 1) : id \notin UpdateIds => id \notin UpdateIds']_vars

\* the middle one of three rows was deleted; the other two are still stored
C17_Witness ==
  /\ ret.op = "deleteMarketUpdate"
  /\ ret.val = TRUE
  /\ ret.id = 2
  /\ clock = 4
  /\ UpdateIds = {1, 3}

ViewUpdateIds ==
  {marketsPage.marketUpdates[i].id : i \in 1..Len(marketsPage.marketUpdates)}

\* C18: once the markets view has loaded and none of its requests is in
\* flight any more, its marketUpdates list reflects the write that completed
\* last: a created row is listed, an edited row is listed with its new
\* message, a deleted row is not listed.
C18_ViewReflectsWrites ==
  (~marketsPage.loading /\ Len(pending) = 0) =>
     /\ (ret.op = "createMarketUpdate" /\ ret.val # NullRow)
          => ret.val.id \in ViewUpdateIds
     /\ (ret.op = "updateMarketUpdate" /\ ret.val # NullRow)
          => \E i \in 1..Len(marketsPage.marketUpdates) :
                /\ marketsPage.marketUpdates[i].id = ret.id
                /\ marketsPage.marketUpdates[i].message = ret.message
     /\ (ret.op = "deleteMarketUpdate" /\ ret.val = TRUE)
          => ret.id \notin ViewUpdateIds

\* the stored markets of the fixed client
ClientMarkets == {tblMarkets[i] : i \in {j \in 1..Len(tblMarkets) :
                                         tblMarkets[j].client_id = CLIENT_ID}}

\* v lists exactly the fixed client's markets, each once, by name ascending
ListsClientMarketsByName(v) ==
  /\ {v[i] : i \in 1..Len(v)} = ClientMarkets
  /\ Len(v) = Cardinality(ClientMarkets)
  /\ \A i \in 1..(Len(v) - 1) : StrLeq(v[i].name, v[i + 1].name)

TwoAnsweredCalls == ret.op = "getMarkets;getMarkets" /\ ~ret.err1 /\ ~ret.err2

\* C19 as stated: two getMarkets calls with no mutation and no backend error
\* between them return lists equal element by element in the same order,
\* each listing exactly the fixed client's markets by name ascending.
C19_GetMarketsIdempotent ==
  TwoAnsweredCalls =>
     /\ ret.first = ret.second
     /\ ListsClientMarketsByName(ret.first)
     /\ ListsClientMarketsByName(ret.second)

DistinctNames ==
  \A m1 \in ClientMarkets, m2 \in ClientMarkets : m1.name = m2.name => m1 = m2

\* C19: each of the two lists holds exactly the fixed client's markets by
\* name ascending; the two are equal element by element when no two of the
\* client's markets share a name (the query orders by name alone).
C19_GetMarketsIdempotentUpToTies ==
  TwoAnsweredCalls =>
     /\ ListsClientMarketsByName(ret.first)
     /\ ListsClientMarketsByName(ret.second)
     /\ DistinctNames => ret.first = ret.second
     /\ \A i \in 1..Len(ret.first) : ret.first[i].name = ret.second[i].name

\* stored as b, a for this client, with another client's market in between
C19_Witness ==
  /\ TwoAnsweredCalls
  /\ Len(tblMarkets) = 3
  /\ tblMarkets[1].name = Str_b /\ tblMarkets[1].client_id = CLIENT_ID
  /\ tblMarkets[2].client_id = OTHER_CLIENT
  /\ tblMarkets[3].name = Str_a /\ tblMarkets[3].client_id = CLIENT_ID
  /\ ret.first = <<tblMarkets[3], tblMarkets[1]>>
  /\ ret.second = ret.first

\* the stored properties a query scoped to the fixed client can see
VisibleProperties ==
  {tblProperties[i] : i \in {j \in 1..Len(tblProperties) :
                              ClientOf(tblProperties[j].market_id) = CLIENT_ID}}

\* the name of the stored market mid
NameOf(mid) == tblMarkets[CHOOSE i \in 1..Len(tblMarkets) : tblMarkets[i].id = mid].name

\* the value of the last getDashboardStats call agrees with the tables, given
\* that nMarkets markets are to be counted: nothing is counted for a query
\* that failed (ret.errA: all properties; ret.errP: the markets' own queries)
StatsAgree(nMarkets) ==
  LET v == ret.val
      listed == IF ret.errA THEN {} ELSE VisibleProperties
      kept == IF Cardinality(listed) < 5 THEN Cardinality(listed) ELSE 5
      recentIds == {v.recentProperties[k].id : k \in 1..Len(v.recentProperties)}
  IN /\ v.totalMarkets = nMarkets
     /\ v.totalProperties = Cardinality(listed)
     /\ Len(v.recentProperties) = kept
     /\ Cardinality(recentIds) = kept
     /\ \A k \in 1..(kept - 1) :
          v.recentProperties[k].created_at >= v.recentProperties[k + 1].created_at
     /\ \A k \in 1..kept :
          /\ \E p \in listed : /\ p.id = v.recentProperties[k].id
                               /\ p.created_at = v.recentProperties[k].created_at
          /\ \A p \in listed : p.id \notin recentIds
                                 => p.created_at <= v.recentProperties[k].created_at
     /\ Len(v.marketPropertyCounts) = nMarkets
     /\ \A i \in 1..Len(v.marketPropertyCounts) :
          LET c == v.marketPropertyCounts[i]
          IN /\ ClientOf(c.marketId) = CLIENT_ID
             /\ \A j \in (i + 1)..Len(v.marketPropertyCounts) :
                  /\ c.marketId # v.marketPropertyCounts[j].marketId
                  /\ StrLeq(NameOf(c.marketId), NameOf(v.marketPropertyCounts[j].marketId))
             /\ c.propertyCount =
                  IF c.marketId \in ret.errP THEN 0
                  ELSE Cardinality({p \in VisibleProperties : p.market_id = c.marketId})

\* C20 as stated: totalMarkets is the number of the fixed client's markets,
\* totalProperties the length of getProperties' list, recentProperties its
\* first min(5, n) entries (newest first), and marketPropertyCounts has one
\* entry per market, in market order, counting that market's own query.
C20_DashboardStats ==
  ret.op = "getDashboardStats" => StatsAgree(Cardinality(ClientMarkets))

\* C20: the same with totalMarkets, and the number of marketPropertyCounts
\* entries, being the length of the list getMarkets returned: 0 when that
\* query failed.
C20_DashboardStatsOfFetchedMarkets ==
  ret.op = "getDashboardStats" =>
     StatsAgree(IF ret.errM THEN 0 ELSE Cardinality(ClientMarkets))

\* six properties of m1 stored, five kept, newest first: the oldest (id 5,
\* created at 1) is left out
C20_Witness ==
  /\ ret.op = "getDashboardStats"
  /\ ~ret.errM /\ ~ret.errA /\ ret.errP = {}
  /\ Len(tblProperties) = 6
  /\ ret.val.totalMarkets = 2
  /\ ret.val.totalProperties = 6
  /\ [k \in 1..5 |-> ret.val.recentProperties[k].id] = <<2, 4, 6, 1, 3>>
  /\ ret.val.marketPropertyCounts =
       <<[marketId |-> "m2", propertyCount |-> 0], [marketId |-> "m1", propertyCount |-> 6]>>

\* the stored update rows a call with argument marketId is to list: those of
\* the market for an identifier, all rows for the omitted argument
UpdatesOf(marketId) ==
  {tblMarketUpdates[i] : i \in {j \in 1..Len(tblMarketUpdates) :
      marketId = Undefined \/ tblMarketUpdates[j].market_id = marketId}}

\* v lists exactly the rows of the set, each once, newest first
ListsNewestFirst(v, rows) ==
  /\ {v[i] : i \in 1..Len(v)} = rows
  /\ Len(v) = Cardinality(rows)
  /\ \A i \in 1..(Len(v) - 1) : v[i].created_at >= v[i + 1].created_at

\* C21 as stated: getMarketUpdates returns exactly the rows whose market_id
\* equals the identifier passed, whatever string value that is, and all rows
\* when none is passed, newest first.
C21_UpdatesExactlyOfMarket ==
  ret.op = "getMarketUpdates" => ListsNewestFirst(ret.val, UpdatesOf(ret.marketId))

\* C21: when the backend answers without an error, a call with a non-empty
\* identifier returns exactly that market's rows and a call with none, or with
\* the empty string, returns all rows, newest first; a call answered with an
\* error returns [].  No row of another market is returned for a non-empty
\* identifier.
C21_UpdatesOfNonEmptyMarketId ==
  ret.op = "getMarketUpdates" =>
     /\ ret.err => ret.val = <<>>
     /\ (~ret.err /\ ret.marketId # "")
          => ListsNewestFirst(ret.val, UpdatesOf(ret.marketId))
     /\ (~ret.err /\ ret.marketId = "")
          => ListsNewestFirst(ret.val, UpdatesOf(Undefined))
     /\ ret.marketId \notin {"", Undefined}
          => \A i \in 1..Len(ret.val) : ret.val[i].market_id = ret.marketId

\* m1 holds the oldest and the newest of three rows, m2 the one in between:
\* the call for m1 lists the newest first and leaves m2's row out
C21_Witness ==
  /\ ret.op = "getMarketUpdates"
  /\ ~ret.err
  /\ ret.marketId = "m1"
  /\ Len(tblMarketUpdates) = 3
  /\ tblMarketUpdates[2].market_id = "m2"
  /\ Len(ret.val) = 2
  /\ ret.val[1].id = 3 /\ ret.val[2].id = 1

\* the ids of the pins on the map
Pins == {marketMap.markers[i] : i \in 1..Len(marketMap.markers)}

\* markets/[id]/page.tsx:392-394, 564-566: the list and the table render one
\* entry per element of the list that is also handed to the map
ListedIds == {marketMap.properties[i].id : i \in 1..Len(marketMap.properties)}

\* C22: on a loaded map, a property of the list with a missing lat or lng has
\* no pin and is still listed, and a property of the list whose lat and lng
\* are both numbers has a pin.
C22_PinIffCoordinates ==
  marketMap.isLoaded =>
    \A i \in 1..Len(marketMap.properties) :
      LET p == marketMap.properties[i]
      IN /\ (p.lat = NoCoord \/ p.lng = NoCoord) => (p.id \notin Pins /\ p.id \in ListedIds)
         /\ (p.lat # NoCoord /\ p.lng # NoCoord) => p.id \in Pins

\* the properties of the current list that have both coordinates
WithCoordinates ==
  {marketMap.properties[i].id : i \in {j \in 1..Len(marketMap.properties) :
      /\ marketMap.properties[j].lat # NoCoord
      /\ marketMap.properties[j].lng # NoCoord}}

\* C30: on a loaded map, after any sequence of changes of the properties
\* list (an empty list and a list without coordinates included), the pins are
\* exactly the properties of the current list that have coordinates; no pin
\* of a property that has left the list remains.
C30_PinsFollowList ==
  marketMap.isLoaded => (Pins \subseteq ListedIds /\ Pins = WithCoordinates)

\* lines 213-234 of the property page: the spinner while loading, then
\* notFound() when there is no property, else the record is rendered
PropertyNotFoundShown == ~propertyPage.loading /\ propertyPage.property = NullRow

\* markets/[id]/page.tsx:175-193: the same guards of the market page
MarketNotFoundShown == ~loading /\ market = NullRow

\* the stored property the page was opened for has no parent market: its
\* market_id is null or names no stored market
OpenedWithoutParent ==
  \E i \in 1..Len(tblProperties) :
     /\ tblProperties[i].id = propertyPage.id
     /\ Len(ParentMarkets(tblProperties[i])) = 0

\* C23: once the property page's load has finished, a page opened for an id
\* with no property, or for a property that has no parent market, shows the
\* not-found state instead of a record.
C23_MissingIdentifierNotFound ==
  (propertyPage.stage = "done" /\ propertyPage.id # 0) =>
     /\ (\A i \in 1..Len(tblProperties) : tblProperties[i].id # propertyPage.id)
          => PropertyNotFoundShown
     /\ OpenedWithoutParent => PropertyNotFoundShown

\* C23, market page: once loadData has finished for an id that names no
\* market, the page shows the not-found state.
C23_MarketPageNotFound ==
  (mounted /\ load.stage = "done" /\ paramsId \notin {tblMarkets[i].id : i \in 1..Len(tblMarkets)})
     => MarketNotFoundShown

\* the highest precedence found in the list ps
TopRank(ps) ==
  CHOOSE r \in {KnownRank(ps[i]) : i \in 1..Len(ps)} :
    \A i \in 1..Len(ps) : KnownRank(ps[i]) <= r

\* the position of the first element of ps that has the highest precedence
FirstTop(ps) ==
  CHOOSE i \in 1..Len(ps) :
    /\ KnownRank(ps[i]) = TopRank(ps)
    /\ \A j \in 1..(i - 1) : KnownRank(ps[j]) < TopRank(ps)

\* C24: when several elements of the list share the highest precedence (case
\* variants such as "LOI" and "loi"), getFurthestPhase returns the one that
\* comes first in the list; a later element of equal precedence never
\* replaces it.
C24_TieKeepsFirst ==
  (ret.op = "getFurthestPhase" /\ Len(phases) > 0 /\ HasRecognized(phases))
    => ret.val = phases[FirstTop(phases)]

\* "LOI" before "loi", after a lower phase: "LOI" is returned
C24_Witness ==
  /\ ret.op = "getFurthestPhase"
  /\ phases = <<Str_intro, Str_LOI, Str_loi>>
  /\ ret.val = Str_LOI

\* C25: while the market page is mounted, isUpdating is true whenever a
\* re-fetch started by a notification is still in flight; with overlapping
\* re-fetches it turns false only when the last of them has resolved.
C25_UpdatingWhileRefetching ==
  (mounted /\ handlers # {}) => isUpdating

\* C26: in every state of the market page, after any pin selections,
\* notifications and re-fetches, selectedPropertyId is null or the id of a
\* property of the current local properties list.
C26_SelectionIsListed ==
  selectedPropertyId = 0 \/ \E i \in 1..Len(properties) : properties[i].id = selectedPropertyId

\* the create and update requests among the requests p, in the order issued
WritesIn(p) ==
  SelectSeq(p, LAMBDA r : r.req \in {"createMarketUpdate", "updateMarketUpdate"})

\* a message that is empty or consists of whitespace only
Blank(msg) == \A i \in 1..Len(msg) : msg[i] \in {" ", "\t", "\n"}

\* the step issues a write of the form
IssuesWrite == Len(WritesIn(pending')) > Len(WritesIn(pending))

\* the step is the resumption of handleSubmit after its write was answered
SubmitResumes == Len(WritesIn(pending')) < Len(WritesIn(pending))

\* C27: handleSubmit issues no write for a blank or whitespace-only message
\* or without a marketId; otherwise it issues exactly one write, an update of
\* the row being edited when editing and a create otherwise, carrying the
\* message; and when that write has been answered, with a row or with the
\* null sentinel, the form has isSubmitting = false, an empty message, and
\* editing is cancelled.
C27_SubmitWritesOnceAndResets ==
  /\ [](/\ Len(WritesIn(pending)) <= 1
        /\ form.isSubmitting <=> Len(WritesIn(pending)) = 1
        /\ \A k \in 1..Len(pending) :
             /\ pending[k].req \in {"createMarketUpdate", "updateMarketUpdate"}
                  => ~Blank(pending[k].message)
             /\ pending[k].req = "createMarketUpdate" => pending[k].marketId # "")
  /\ [][IssuesWrite =>
          /\ ~Blank(form.message)
          /\ ~form.isSubmitting /\ form'.isSubmitting
          /\ Len(pending') = Len(pending) + 1
          /\ LET w == pending'[Len(pending')]
             IN /\ w.message = form.message
                /\ w.stage = "sent"
                /\ IF marketsPage.editingUpdate # NullRow
                   THEN w.req = "updateMarketUpdate" /\ w.id = marketsPage.editingUpdate.id
                   ELSE w.req = "createMarketUpdate"]_vars
  /\ [][SubmitResumes =>
          /\ form' = [message |-> Str_empty, isSubmitting |-> FALSE]
          /\ marketsPage'.editingUpdate = NullRow
          /\ WritesIn(pending') = <<>>]_vars

\* an edit was submitted, the backend answered it with an error, and the
\* form is back to its empty, idle state with editing cancelled
C27_Witness ==
  /\ ret.op = "updateMarketUpdate"
  /\ ret.val = NullRow
  /\ pending = <<>>
  /\ form = [message |-> Str_empty, isSubmitting |-> FALSE]
  /\ marketsPage.editingUpdate = NullRow
  /\ \E i \in 1..Len(tblMarketUpdates) :
       tblMarketUpdates[i].id = ret.id /\ tblMarketUpdates[i].message # ret.message

\* C28: in getMarketsWithDetails a backend error on one market's properties
\* or franchisees sub-fetch does not fail the aggregate: every market of the
\* list keeps its position and entry, the affected market's entry has
\* propertyCount 0 and phases [] (properties error) or franchisees []
\* (franchisees error), and the entry of every market without an error is the
\* one an error-free call gives.  An error on the market list yields [] and
\* no sub-fetch is issued.
C28_SubFetchErrorIsLocal ==
  /\ (detailsCall.stage = "details" /\ detailsCall.errM)
       => detailsCall.markets = <<>> /\ detailsCall.subs = {}
  /\ ret.op = "getMarketsWithDetails" =>
       /\ ret.errM => ret.val = <<>>
       /\ ~ret.errM => Len(ret.val) = Cardinality(ClientMarkets)
       /\ Len(ret.val) = Len(ret.markets)
       /\ \A i \in 1..Len(ret.val) :
            LET e == ret.val[i]
                m == ret.markets[i]
            IN /\ e.id = m.id
               /\ m.id \in ret.errP => (e.propertyCount = 0 /\ e.phases = <<>>)
               /\ m.id \in ret.errF => e.franchisees = <<>>
               /\ m.id \notin ret.errP =>
                    \E g \in MarketDetails(m, {}, {}) :
                       e.propertyCount = g.propertyCount /\ e.phases = g.phases
               /\ m.id \notin ret.errF =>
                    \E g \in MarketDetails(m, {}, {}) : e.franchisees = g.franchisees

\* the properties sub-fetch of m1 failed: m1 is listed with no properties but
\* with its franchisee, and m2's entry shows its one property
C28_Witness ==
  /\ ret.op = "getMarketsWithDetails"
  /\ ~ret.errM /\ ret.errP = {"m1"} /\ ret.errF = {}
  /\ StoredCount("m1") = 2
  /\ Len(ret.val) = 2
  /\ ret.val[1].id = "m2" /\ ret.val[1].propertyCount = 1
  /\ ret.val[1].phases = <<Str_intro>>
  /\ ret.val[2].id = "m1" /\ ret.val[2].propertyCount = 0 /\ ret.val[2].phases = <<>>
  /\ Len(ret.val[2].franchisees) = 1

\* C29: on every path of the market page's initial load (market found, not
\* found, exception during a fetch), once the pending fetches have resolved
\* loading is false, in the end it is false for good, and it never turns
\* true again.
C29_LoadingEnds ==
  /\ [](load.stage = "done" => ~loading)
  /\ [][~loading => ~loading']_vars
  /\ <>[](~loading)

\* the market was found and the properties fetch threw: the page is not
\* loading and has no market
C29_Witness ==
  /\ paramsId = "m1"
  /\ load.stage = "done"
  /\ ~loading
  /\ market = NullRow

====
